---- MODULE Spec2Model ----
(***************************************************************************)
(* A model of Verilator's scheduling pass, src/src/V3Sched.cpp.            *)
(*                                                                         *)
(* Three state machines share this module:                                 *)
(*   SpecClassify  gatherLogicClasses applied (twice) to a netlist;        *)
(*   Spec          V3Sched::schedule, one action per step of the driver;   *)
(*   SpecEval      the execution of the IR that schedule generates         *)
(*                 (_eval_settle and _eval), statement by statement.       *)
(* The IR builders (createTriggers, makeEvalLoop, createEval, ...) are     *)
(* operators used by Spec and by SpecEval alike.                           *)
(***************************************************************************)
EXTENDS Integers, Sequences, FiniteSets, TLC

(***************************************************************************)
(* Bounds of the model.                                                    *)
(***************************************************************************)
\* The largest number of AstActive blocks of an input netlist.
MaxActives == 2

\* The largest --converge-limit of an executed design.
MaxConvergeLimit == 1

\* The largest number of calls of _eval in an execution.
MaxEvals == 1

(***************************************************************************)
(* State.                                                                  *)
(***************************************************************************)
VARIABLES
    pc,            \* the step of the driver (or of the classifier run)
    netlist,       \* the AstActives linked under the scopes, in order
    logicClasses,  \* LogicClasses: the buckets of gatherLogicClasses
    firstClasses,  \* the buckets and the netlist of the first classifier run
    opt,           \* v3Global.opt: convergeLimit, xInitialEdge, outputSplitCFuncs
    dpiExportTriggerp, \* netlistp->dpiExportTriggerp(): "" when there is none
    logicRegions,  \* LogicRegions: the result of partition
    logicReplicas, \* LogicReplicas: the result of replicateLogic
    gen,           \* what the pass has added to the netlist so far
    loc,           \* the locals of schedule that outlive a step
    cont,          \* execution: the statements still to run, innermost first
    store,         \* execution: the values of the variables
    hist           \* execution: what has happened in the current loop runs

schedVars == <<logicRegions, logicReplicas, gen, loc>>

evalVars == <<cont, store, hist>>

vars == <<pc, netlist, logicClasses, firstClasses, opt, dpiExportTriggerp,
          logicRegions, logicReplicas, gen, loc, cont, store, hist>>

\* The options when the pass is not run.
NoOpt == [convergeLimit |-> 0, xInitialEdge |-> FALSE, outputSplitCFuncs |-> 0]

(***************************************************************************)
(* The input IR.                                                           *)
(***************************************************************************)
\* The scopes of the netlist, in the order netlistp->foreach<AstScope> visits them.
ScopeOrder == <<"top", "sub">>

Scopes == {ScopeOrder[i] : i \in 1..Len(ScopeOrder)}

\* An AstSenItem: an edge type and the sensed expression (expressions are
\* compared structurally, so an expression is its text).
SenItem(edge, sensp) == [edgeType |-> edge, sensp |-> sensp]

\* The AstSenTrees of the top scope, by identity.  A tree is the list of
\* its AstSenItems.
SenTreePool ==
    [ sStatic  |-> << SenItem("ET_STATIC", "") >>,
      sInitial |-> << SenItem("ET_INITIAL", "") >>,
      sFinal   |-> << SenItem("ET_FINAL", "") >>,
      sCombo   |-> << SenItem("ET_COMBO", "") >>,
      sPosClk  |-> << SenItem("ET_POSEDGE", "clk") >>,
      sChgNeg  |-> << SenItem("ET_CHANGED", "a"), SenItem("ET_NEGEDGE", "clk") >>,
      sEvent   |-> << SenItem("ET_EVENT", "ev") >>,
      sIllBoth |-> << SenItem("ET_ILLEGAL", "a"), SenItem("ET_BOTHEDGE", "a") >>,
      sCombo2  |-> << SenItem("ET_COMBO", ""), SenItem("ET_COMBO", "") >>,
      sInitClk |-> << SenItem("ET_INITIAL", ""), SenItem("ET_POSEDGE", "clk") >>,
      sNever   |-> << SenItem("ET_NEVER", "") >>,
      \* made by breakCycles for the combinational logic it turns hybrid
      sHybA    |-> << SenItem("ET_HYBRID", "a") >>,
      sHybAB   |-> << SenItem("ET_HYBRID", "a"), SenItem("ET_HYBRID", "b") >>,
      \* @(ev or posedge clk), given to a trigger kit next to @(ev)
      sEvOrPos |-> << SenItem("ET_EVENT", "ev"), SenItem("ET_POSEDGE", "clk") >> ]

\* The AstSenTrees an input AstActive may carry (the hybrid trees are only
\* made by breakCycles).  sCombo2 and sNever are the malformed ones.
InputSenTrees ==
    {"sStatic", "sInitial", "sFinal", "sCombo", "sPosClk", "sChgNeg", "sEvent",
     "sCombo2", "sNever"}

sensesp(senTreep) == SenTreePool[senTreep]

\* VEdgeType::clockedStmt
clockedStmt(edge) ==
    edge \in {"ET_CHANGED", "ET_BOTHEDGE", "ET_POSEDGE", "ET_NEGEDGE", "ET_EVENT"}

hasEdge(senTreep, edges) ==
    \E i \in 1..Len(sensesp(senTreep)) : sensesp(senTreep)[i].edgeType \in edges

hasStatic(senTreep) == hasEdge(senTreep, {"ET_STATIC"})

hasInitial(senTreep) == hasEdge(senTreep, {"ET_INITIAL"})

hasFinal(senTreep) == hasEdge(senTreep, {"ET_FINAL"})

hasCombo(senTreep) == hasEdge(senTreep, {"ET_COMBO"})

hasHybrid(senTreep) == hasEdge(senTreep, {"ET_HYBRID"})

hasClocked(senTreep) ==
    \E i \in 1..Len(sensesp(senTreep)) : clockedStmt(sensesp(senTreep)[i].edgeType)

\* !senTreep->sensesp()->nextp()
singleSenItem(senTreep) == Len(sensesp(senTreep)) = 1

\* The statement lists an input AstActive may hold: none, one logic
\* statement, or one AstNodeProcedure wrapping one statement.
BodyKinds == {"none", "stmt", "proc"}

\* What the passes outside V3Sched see in a logic statement: it is on a
\* combinational cycle ("cyc"), assigns a clock with a blocking assignment
\* ("blk"), or samples in the 'pre' region ("pre").
LogicKinds == {"cyc", "blk", "pre"}

\* An AstActive: its identity, its scope, its AstSenTree and its
\* statements.  Statement ids derive from the block's identity.
Logic(id) == [op |-> "Logic", id |-> id]

Procedure(bodysp) == [op |-> "NodeProcedure", bodysp |-> bodysp]

stmtsOf(kind, id) ==
    CASE kind = "none" -> <<>>
      [] kind = "stmt" -> << Logic(id) >>
      [] kind = "proc" -> << Procedure(<< Logic(id) >>) >>
      [] kind \in LogicKinds -> << Logic(id) >>

Active(id, scopep, senTreep, kind) ==
    [id |-> id, scopep |-> scopep, sensesp |-> senTreep, stmtsp |-> stmtsOf(kind, id),
     kind |-> kind,
     trigp |-> 0]   \* the trigger AstSenTree remapSensitivities gave it (0: none)

\* The shapes of an input AstActive: a statement under every tree, a
\* procedure wrapper under the trees orderSequentially lowers, and an
\* empty block under a well-formed and under a malformed tree.
ActiveShapes ==
    (Scopes \X InputSenTrees \X {"stmt"})
    \cup (Scopes \X {"sStatic", "sInitial", "sFinal"} \X {"proc"})
    \cup (Scopes \X {"sPosClk", "sCombo2"} \X {"none"})

\* The netlist made of the given shapes.
netlistOf(f) == [i \in DOMAIN f |-> Active(i, f[i][1], f[i][2], f[i][3])]

(***************************************************************************)
(* Sequence helpers.                                                       *)
(***************************************************************************)
RECURSIVE SelectSeqBy(_, _)
\* The elements of s whose scope is scopep, in order.
SelectSeqBy(s, scopep) ==
    IF s = <<>> THEN <<>>
    ELSE (IF Head(s).scopep = scopep THEN << Head(s) >> ELSE <<>>)
         \o SelectSeqBy(Tail(s), scopep)

RECURSIVE Flatten(_)
Flatten(ss) == IF ss = <<>> THEN <<>> ELSE Head(ss) \o Flatten(Tail(ss))

Range(s) == {s[i] : i \in 1..Len(s)}

Ids(s) == {s[i].id : i \in 1..Len(s)}

\* In(v), with v computed once and used under a name.
Let(v, In(_)) == CHOOSE r \in {In(x) : x \in {v}} : TRUE

(***************************************************************************)
(* The generated IR: expressions and statements.                           *)
(***************************************************************************)
VarRef(vscp) == [e |-> "VarRef", var |-> vscp]

Const(n) == [e |-> "Const", num |-> n]

Null == [e |-> "Null"]

\* A binary node: AstEq, AstNeq, AstGt, AstAdd, AstAnd, AstOr, AstXor.
Bin(kind, lhsp, rhsp) == [e |-> kind, lhsp |-> lhsp, rhsp |-> rhsp]

Not(lhsp) == [e |-> "Not", lhsp |-> lhsp]

\* AstSel{flp, opp, 0, 1}
Lsb(opp) == [e |-> "Sel", lhsp |-> opp]

\* AstCMethodHard used as an expression: at(index), any(), isFired().
At(vscp, index) == [e |-> "At", var |-> vscp, index |-> index]

AnyOf(vscp) == [e |-> "Any", var |-> vscp]

IsFired(currp) == [e |-> "IsFired", var |-> currp]

Assign(lhsp, rhsp) == [op |-> "Assign", lhsp |-> lhsp, rhsp |-> rhsp]

If(condp, ifsp, elsesp) == [op |-> "If", condp |-> condp, ifsp |-> ifsp, elsesp |-> elsesp]

While(condp, bodysp) == [op |-> "While", condp |-> condp, bodysp |-> bodysp]

CCall(funcp) == [op |-> "CCall", funcp |-> funcp]

\* AstCMethodHard used as a statement: clear(), set(arg), andNot(a, b), clearFired().
Method(name, vscp, pinsp) == [op |-> "CMethodHard", name |-> name, var |-> vscp, pinsp |-> pinsp]

\* AstTextBlock / AstText: "debug" wraps a call of a dump function in
\* #ifdef VL_DEBUG, "fatal" is the VL_FATAL_MT call, "enqueue" the
\* enqueueTriggeredEventForClearing call, "msg" a VL_DBG_MSGF line.
Text(kind, arg) == [op |-> "Text", kind |-> kind, arg |-> arg]

\* A VL_DBG_MSGF line of a dump function.
DbgMsg(name, index, text) ==
    [op |-> "Text", kind |-> "msg", arg |-> text, name |-> name, index |-> index]

\* AstAssign{vscp := val}
setVar(vscp, val) == Assign(VarRef(vscp), Const(val))

(***************************************************************************)
(* The part of the netlist the pass adds to (a value threaded through the  *)
(* builders): the AstCFuncs, the variables and the trigger AstSenTrees of   *)
(* the top scope, and the state of the one SenExprBuilder.                 *)
(***************************************************************************)
EmptyIR ==
    [funcs       |-> <<>>,   \* AstCFuncs, in the order they were added
     vars        |-> <<>>,   \* createTemp / createTempLike, in order
     senTrees    |-> <<>>,   \* topScopep->addSenTreep of trigger AstSenTrees
     m_prev      |-> <<>>,   \* SenExprBuilder::m_prev, in order of insertion
     m_hasUpdate |-> {},     \* SenExprBuilder::m_hasUpdate
     m_updates   |-> <<>>,   \* SenExprBuilder::m_updates
     m_uniqueNames |-> 0,    \* the counter of V3UniqueNames
     failed      |-> FALSE]  \* a UASSERT_OBJ of the pass has fired

\* The index of the AstCFunc with the given name (0: none).
funcIndex(ir, name) ==
    IF \E i \in 1..Len(ir.funcs) : ir.funcs[i].name = name
    THEN CHOOSE i \in 1..Len(ir.funcs) :
            /\ ir.funcs[i].name = name
            /\ \A j \in 1..(i - 1) : ir.funcs[j].name # name
    ELSE 0

stmtsp(ir, name) == ir.funcs[funcIndex(ir, name)].stmtsp

\* funcp->addStmtsp(nodes)
addStmtsp(ir, name, nodes) ==
    [ir EXCEPT !.funcs[funcIndex(ir, name)].stmtsp = @ \o nodes]

\* funcp->stmtsp()->addHereThisAsNext(nodes): nodes go to the head.
addHereThisAsNext(ir, name, nodes) ==
    [ir EXCEPT !.funcs[funcIndex(ir, name)].stmtsp = nodes \o @]

makeSubFunction(ir, name, slow) ==
    [ir EXCEPT !.funcs = Append(@, [name |-> name, scopep |-> "top", slow |-> slow,
                                    entryPoint |-> FALSE, stmtsp |-> <<>>])]

\* makeTopFunction that does not mark the function as an entry point.
makeTopFunction_NotEntry(ir, name, slow) == makeSubFunction(ir, name, slow)

makeTopFunction(ir, name, slow) ==
    LET ir1 == makeSubFunction(ir, name, slow) IN
    [ir1 EXCEPT !.funcs[Len(ir1.funcs)].entryPoint = TRUE]

\* scopeTopp->createTemp(name, dtype); dtype is a width, or the width of a
\* TRIGGERVEC.
createTemp(ir, name, kind, width) ==
    [ir EXCEPT !.vars = Append(@, [name |-> name, kind |-> kind, width |-> width])]

(***************************************************************************)
(* SenExprBuilder.                                                         *)
(***************************************************************************)
\* The sensed expressions that are a simple AstVarRef, with the scope of
\* the variable; any other expression is composite.
VarScopeOf == [clk |-> "top", a |-> "top", b |-> "sub", ev |-> "top"]

prevIndex(ir, currp) ==
    IF \E i \in 1..Len(ir.m_prev) : ir.m_prev[i].currp = currp
    THEN CHOOSE i \in 1..Len(ir.m_prev) : ir.m_prev[i].currp = currp
    ELSE 0

\* The name getPrev gives a new 'previous value' variable.
prevName(ir, currp) ==
    IF currp \in DOMAIN VarScopeOf
    THEN "__Vtrigrprev__" \o VarScopeOf[currp] \o "__" \o currp
    ELSE "__Vtrigprev__expression_" \o ToString(ir.m_uniqueNames)

\* getPrev without the lookup in m_prev: a new variable on every call.
getPrev_NoFind(ir, currp) ==
    Let(addStmtsp([createTemp(ir, prevName(ir, currp), "prev", 1) EXCEPT
                      !.m_prev = << [currp |-> currp, prevp |-> prevName(ir, currp)] >> \o @],
                  "_eval_initial",
                  << Assign(VarRef(prevName(ir, currp)), VarRef(currp)) >>),
        LAMBDA ir1 :
            [ir    |-> [ir1 EXCEPT !.m_updates =
                           Append(@, Assign(VarRef(prevName(ir, currp)), VarRef(currp)))],
             prevp |-> prevName(ir, currp)])

\* getPrev that puts the initializer in front of the statements of the
\* initialization function.
getPrev_InitFirst(ir, currp) ==
    Let(IF prevIndex(ir, currp) = 0
        THEN [createTemp(ir, prevName(ir, currp), "prev", 1) EXCEPT
                 !.m_prev = Append(@, [currp |-> currp, prevp |-> prevName(ir, currp)]),
                 !.m_uniqueNames = IF currp \in DOMAIN VarScopeOf THEN @ ELSE @ + 1,
                 !.funcs[funcIndex(ir, "_eval_initial")].stmtsp =
                     << Assign(VarRef(prevName(ir, currp)), VarRef(currp)) >> \o @]
        ELSE ir,
        LAMBDA ir1 :
            LET prevp == ir1.m_prev[prevIndex(ir1, currp)].prevp IN
            [ir    |-> IF currp \in ir1.m_hasUpdate THEN ir1
                       ELSE [ir1 EXCEPT
                                !.m_hasUpdate = @ \cup {currp},
                                !.m_updates = Append(@, Assign(VarRef(prevp), VarRef(currp)))],
             prevp |-> prevp])

\* getPrev that adds no update of the 'previous value' variable.
getPrev_NoUpdate(ir, currp) ==
    Let(IF prevIndex(ir, currp) = 0
        THEN addStmtsp([createTemp(ir, prevName(ir, currp), "prev", 1) EXCEPT
                           !.m_prev = Append(@, [currp |-> currp,
                                                 prevp |-> prevName(ir, currp)]),
                           !.m_uniqueNames =
                               IF currp \in DOMAIN VarScopeOf THEN @ ELSE @ + 1],
                       "_eval_initial",
                       << Assign(VarRef(prevName(ir, currp)), VarRef(currp)) >>)
        ELSE ir,
        LAMBDA ir1 :
            [ir    |-> ir1,
             prevp |-> ir1.m_prev[prevIndex(ir1, currp)].prevp])

\* getPrev: [ir, prevp].
getPrev(ir, currp) ==
    Let(IF prevIndex(ir, currp) = 0
        THEN addStmtsp([createTemp(ir, prevName(ir, currp), "prev", 1) EXCEPT
                           !.m_prev = Append(@, [currp |-> currp,
                                                 prevp |-> prevName(ir, currp)]),
                           !.m_uniqueNames =
                               IF currp \in DOMAIN VarScopeOf THEN @ ELSE @ + 1],
                       "_eval_initial",
                       << Assign(VarRef(prevName(ir, currp)), VarRef(currp)) >>)
        ELSE ir,
        LAMBDA ir1 :
            LET prevp == ir1.m_prev[prevIndex(ir1, currp)].prevp IN
            [ir    |-> IF currp \notin ir1.m_hasUpdate
                       THEN [ir1 EXCEPT
                                !.m_hasUpdate = @ \cup {currp},
                                !.m_updates = Append(@, Assign(VarRef(prevp), VarRef(currp)))]
                       ELSE ir1,
             prevp |-> prevp])

\* createTerm with a positive edge term that does not negate the previous
\* value.
createTerm_PosNoNot(ir, senItemp) ==
    LET senp  == senItemp.sensp
        currp == VarRef(senp)
        edge  == senItemp.edgeType
    IN  CASE edge = "ET_ILLEGAL" ->
               [ir |-> ir, termp |-> Null, fired |-> FALSE]
          [] edge \in {"ET_CHANGED", "ET_HYBRID"} ->
               Let(getPrev(ir, senp), LAMBDA g :
                   [ir |-> g.ir, termp |-> Bin("Neq", currp, VarRef(g.prevp)),
                    fired |-> TRUE])
          [] edge = "ET_BOTHEDGE" ->
               Let(getPrev(ir, senp), LAMBDA g :
                   [ir |-> g.ir, termp |-> Lsb(Bin("Xor", currp, VarRef(g.prevp))),
                    fired |-> FALSE])
          [] edge = "ET_POSEDGE" ->
               Let(getPrev(ir, senp), LAMBDA g :
                   [ir |-> g.ir, termp |-> Lsb(Bin("And", currp, VarRef(g.prevp))),
                    fired |-> FALSE])
          [] edge = "ET_NEGEDGE" ->
               Let(getPrev(ir, senp), LAMBDA g :
                   [ir |-> g.ir, termp |-> Lsb(Bin("And", Not(currp), VarRef(g.prevp))),
                    fired |-> FALSE])
          [] edge = "ET_EVENT" ->
               [ir |-> [ir EXCEPT !.m_updates =
                           Append(@, If(IsFired(senp),
                                        << Method("clearFired", senp, <<>>),
                                           Text("enqueue", senp) >>,
                                        <<>>))],
                termp |-> IsFired(senp), fired |-> FALSE]
          [] OTHER ->
               [ir |-> [ir EXCEPT !.failed = TRUE], termp |-> Null, fired |-> FALSE]

\* createTerm that, for an event, adds no statement clearing its fired
\* state.
createTerm_EventNoClear(ir, senItemp) ==
    LET senp  == senItemp.sensp
        currp == VarRef(senp)
        edge  == senItemp.edgeType
    IN  CASE edge = "ET_ILLEGAL" ->
               [ir |-> ir, termp |-> Null, fired |-> FALSE]
          [] edge \in {"ET_CHANGED", "ET_HYBRID"} ->
               Let(getPrev(ir, senp), LAMBDA g :
                   [ir |-> g.ir, termp |-> Bin("Neq", currp, VarRef(g.prevp)),
                    fired |-> TRUE])
          [] edge = "ET_BOTHEDGE" ->
               Let(getPrev(ir, senp), LAMBDA g :
                   [ir |-> g.ir, termp |-> Lsb(Bin("Xor", currp, VarRef(g.prevp))),
                    fired |-> FALSE])
          [] edge = "ET_POSEDGE" ->
               Let(getPrev(ir, senp), LAMBDA g :
                   [ir |-> g.ir, termp |-> Lsb(Bin("And", currp, Not(VarRef(g.prevp)))),
                    fired |-> FALSE])
          [] edge = "ET_NEGEDGE" ->
               Let(getPrev(ir, senp), LAMBDA g :
                   [ir |-> g.ir, termp |-> Lsb(Bin("And", Not(currp), VarRef(g.prevp))),
                    fired |-> FALSE])
          [] edge = "ET_EVENT" ->
               [ir |-> ir, termp |-> IsFired(senp), fired |-> FALSE]
          [] OTHER ->
               [ir |-> [ir EXCEPT !.failed = TRUE], termp |-> Null, fired |-> FALSE]

\* createTerm: [ir, termp, fired].
createTerm(ir, senItemp) ==
    LET senp  == senItemp.sensp
        currp == VarRef(senp)
        edge  == senItemp.edgeType
    IN  CASE edge = "ET_ILLEGAL" ->
               [ir |-> ir, termp |-> Null, fired |-> FALSE]
          [] edge \in {"ET_CHANGED", "ET_HYBRID"} ->
               Let(getPrev(ir, senp), LAMBDA g :
                   [ir |-> g.ir, termp |-> Bin("Neq", currp, VarRef(g.prevp)),
                    fired |-> TRUE])
          [] edge = "ET_BOTHEDGE" ->
               Let(getPrev(ir, senp), LAMBDA g :
                   [ir |-> g.ir, termp |-> Lsb(Bin("Xor", currp, VarRef(g.prevp))),
                    fired |-> FALSE])
          [] edge = "ET_POSEDGE" ->
               Let(getPrev(ir, senp), LAMBDA g :
                   [ir |-> g.ir, termp |-> Lsb(Bin("And", currp, Not(VarRef(g.prevp)))),
                    fired |-> FALSE])
          [] edge = "ET_NEGEDGE" ->
               Let(getPrev(ir, senp), LAMBDA g :
                   [ir |-> g.ir, termp |-> Lsb(Bin("And", Not(currp), VarRef(g.prevp))),
                    fired |-> FALSE])
          [] edge = "ET_EVENT" ->
               [ir |-> [ir EXCEPT !.m_updates =
                           Append(@, If(IsFired(senp),
                                        << Method("clearFired", senp, <<>>),
                                           Text("enqueue", senp) >>,
                                        <<>>))],
                termp |-> IsFired(senp), fired |-> FALSE]
          [] OTHER ->
               [ir |-> [ir EXCEPT !.failed = TRUE], termp |-> Null, fired |-> FALSE]

RECURSIVE buildFrom(_, _, _, _)
buildFrom(ir, items, resultp, firedAtInitialization) ==
    IF items = <<>>
    THEN [ir |-> ir, resultp |-> resultp, fired |-> firedAtInitialization]
    ELSE Let(createTerm(ir, Head(items)), LAMBDA t :
             IF t.termp # Null
             THEN buildFrom(t.ir, Tail(items),
                            IF resultp # Null THEN Bin("Or", resultp, t.termp) ELSE t.termp,
                            firedAtInitialization \/ t.fired)
             ELSE buildFrom(t.ir, Tail(items), resultp, firedAtInitialization))

\* SenExprBuilder::build: [ir, resultp, fired].
build(ir, senTreep) == buildFrom(ir, sensesp(senTreep), Null, FALSE)

\* SenExprBuilder::getAndClearUpdates: the updates are ir.m_updates.
getAndClearUpdates(ir) == [ir EXCEPT !.m_hasUpdate = {}, !.m_updates = <<>>]

(***************************************************************************)
(* TriggerKit and createTriggers.                                          *)
(***************************************************************************)
\* std::numeric_limits<unsigned>::max(), written as the value (unsigned)-1:
\* an index no trigger vector has.
UINT_MAX == -1

RECURSIVE senTreesFrom(_, _)
\* The walk of getSenTreesUsedBy over the AstActives of all the given
\* LogicByScopes; seen is the set of trees with user1 set.
senTreesFrom(actives, seen) ==
    IF actives = <<>> THEN <<>>
    ELSE LET senTreep == Head(actives).sensesp IN
         IF senTreep \in seen THEN senTreesFrom(Tail(actives), seen)
         ELSE (IF hasClocked(senTreep) \/ hasHybrid(senTreep)
               THEN << senTreep >> ELSE <<>>)
              \o senTreesFrom(Tail(actives), seen \cup {senTreep})

\* getSenTreesUsedBy without the user1 mark: a tree is taken once for
\* every AstActive that carries it.
getSenTreesUsedBy_NoMark(lbsps) ==
    LET actives == SelectSeq(Flatten(lbsps),
                             LAMBDA a : hasClocked(a.sensesp) \/ hasHybrid(a.sensesp))
    IN  [i \in 1..Len(actives) |-> actives[i].sensesp]

getSenTreesUsedBy(lbsps) == senTreesFrom(Flatten(lbsps), {})

\* The AstSenTree @(vscp.at(index)) added to the top scope; its identity
\* is its position in ir.senTrees.
addSenTreep(ir, vscp, index) ==
    [ir EXCEPT !.senTrees = Append(@, [vscp |-> vscp, index |-> index])]

\* TriggerKit::createTriggerSenTree: [ir, resultp].
createTriggerSenTree(ir, trig, index) ==
    [ir |-> addSenTreep(ir, trig.m_vscp, index), resultp |-> Len(ir.senTrees) + 1]

\* addFirstIterationTriggerAssignment that adds nothing: the first
\* iteration bit is never assigned.
addFirstIterationTriggerAssignment_None(ir, trig, counterp, index) == ir

\* addFirstIterationTriggerAssignment that compares the counter with one.
addFirstIterationTriggerAssignment_CounterOne(ir, trig, counterp, index) ==
    addHereThisAsNext(ir, trig.m_funcp,
        << Assign(At(trig.m_vscp, 0), Bin("Eq", VarRef(counterp), Const(1))) >>)

\* TriggerKit::addFirstIterationTriggerAssignment
addFirstIterationTriggerAssignment(ir, trig, counterp, index) ==
    addHereThisAsNext(ir, trig.m_funcp,
        << Assign(At(trig.m_vscp, 0), Bin("Eq", VarRef(counterp), Const(0))) >>)

\* addDpiExportTriggerAssignment without the second statement: the variable
\* is read into the bit and left set.
addDpiExportTriggerAssignment_NoClear(ir, trig, dpiExportTriggerVscp, index) ==
    addHereThisAsNext(ir, trig.m_funcp,
        << Assign(At(trig.m_vscp, index), VarRef(dpiExportTriggerVscp)) >>)

\* TriggerKit::addDpiExportTriggerAssignment
addDpiExportTriggerAssignment(ir, trig, dpiExportTriggerVscp, index) ==
    addHereThisAsNext(ir, trig.m_funcp,
        << Assign(At(trig.m_vscp, index), VarRef(dpiExportTriggerVscp)),
           Assign(VarRef(dpiExportTriggerVscp), Const(0)) >>)

\* The debug statement addDebug adds to the dump function.
addDebug(vscp, name, index, text) ==
    If(At(vscp, index), << DbgMsg(name, index, text) >>, <<>>)

RECURSIVE triggersFrom(_, _, _, _)
\* The loop of createTriggers over the input AstSenTrees; acc is
\* [ir, map, stmts, initialTrigsp, dump, triggerNumber].
triggersFrom(senTreeps, vscp, name, acc) ==
    IF senTreeps = <<>> THEN acc
    ELSE LET senTreep  == Head(senTreeps)
             n         == acc.triggerNumber
             trigpSenp == Len(acc.ir.senTrees) + 1
         IN  Let(build(addSenTreep(acc.ir, vscp, n), senTreep), LAMBDA pair :
                 triggersFrom(Tail(senTreeps), vscp, name,
                    [ir   |-> IF hasClocked(senTreep) \/ hasHybrid(senTreep)
                              THEN pair.ir ELSE [pair.ir EXCEPT !.failed = TRUE],
                     map  |-> [k \in DOMAIN acc.map \cup {senTreep} |->
                                  IF k = senTreep THEN trigpSenp ELSE acc.map[k]],
                     stmts |-> Append(acc.stmts, Assign(At(vscp, n), pair.resultp)),
                     initialTrigsp |->
                         IF pair.fired \/ opt.xInitialEdge
                         THEN Append(acc.initialTrigsp, Assign(At(vscp, n), Const(1)))
                         ELSE acc.initialTrigsp,
                     dump |-> Append(acc.dump, addDebug(vscp, name, n, senTreep)),
                     triggerNumber |-> n + 1]))

\* createTriggers with an initialization block that does not set the
\* DidInit flag.
createTriggers_NoDidInitSet(ir, senTreeps, name, extra, slow) ==
    LET nTriggers == Len(senTreeps) + extra
        vscp  == "__V" \o name \o "Triggered"
        funcp == "_eval_triggers__" \o name
        dumpp == "_dump_triggers__" \o name
        didInit == "__V" \o name \o "DidInit"
        dump0 == << If(AnyOf(vscp), <<>>, << DbgMsg(name, 0, "No triggers active") >>) >>
                 \o [i \in 1..extra |-> addDebug(vscp, name, i - 1, "")]
    IN  Let(triggersFrom(senTreeps, vscp, name,
                [ir |-> makeSubFunction(
                            makeSubFunction(createTemp(ir, vscp, "TRIGGERVEC", nTriggers),
                                            funcp, slow),
                            dumpp, slow),
                 map |-> << >>, stmts |-> <<>>, initialTrigsp |-> <<>>,
                 dump |-> dump0, triggerNumber |-> extra]),
            LAMBDA acc :
                LET ir5 == getAndClearUpdates(
                               addStmtsp(acc.ir, funcp, acc.stmts \o acc.ir.m_updates))
                    ir6 == IF acc.initialTrigsp # <<>>
                           THEN addStmtsp(createTemp(ir5, didInit, "bit", 1), funcp,
                                   << If(Not(VarRef(didInit)),
                                         acc.initialTrigsp,
                                         <<>>) >>)
                           ELSE ir5
                IN  [ir |-> addStmtsp(addStmtsp(ir6, dumpp, acc.dump), funcp,
                                      << Text("debug", dumpp) >>),
                     trig |-> [m_vscp |-> vscp, m_funcp |-> funcp, m_dumpp |-> dumpp,
                               m_map |-> acc.map]])

\* createTriggers: [ir, trig], trig the TriggerKit {m_vscp, m_funcp,
\* m_dumpp, m_map}.
createTriggers(ir, senTreeps, name, extra, slow) ==
    LET nTriggers == Len(senTreeps) + extra
        vscp  == "__V" \o name \o "Triggered"
        funcp == "_eval_triggers__" \o name
        dumpp == "_dump_triggers__" \o name
        didInit == "__V" \o name \o "DidInit"
        dump0 == << If(AnyOf(vscp), <<>>, << DbgMsg(name, 0, "No triggers active") >>) >>
                 \o [i \in 1..extra |-> addDebug(vscp, name, i - 1, "")]
    IN  Let(triggersFrom(senTreeps, vscp, name,
                [ir |-> makeSubFunction(
                            makeSubFunction(createTemp(ir, vscp, "TRIGGERVEC", nTriggers),
                                            funcp, slow),
                            dumpp, slow),
                 map |-> << >>, stmts |-> <<>>, initialTrigsp |-> <<>>,
                 dump |-> dump0, triggerNumber |-> extra]),
            LAMBDA acc :
                LET ir5 == getAndClearUpdates(
                               addStmtsp(acc.ir, funcp, acc.stmts \o acc.ir.m_updates))
                    ir6 == IF acc.initialTrigsp # <<>>
                           THEN addStmtsp(createTemp(ir5, didInit, "bit", 1), funcp,
                                   << If(Not(VarRef(didInit)),
                                         << setVar(didInit, 1) >> \o acc.initialTrigsp,
                                         <<>>) >>)
                           ELSE ir5
                IN  [ir |-> addStmtsp(addStmtsp(ir6, dumpp, acc.dump), funcp,
                                      << Text("debug", dumpp) >>),
                     trig |-> [m_vscp |-> vscp, m_funcp |-> funcp, m_dumpp |-> dumpp,
                               m_map |-> acc.map]])

(***************************************************************************)
(* buildLoop and makeEvalLoop.                                             *)
(***************************************************************************)
\* The iteration counter and the limit it is compared with are 32 bits
\* wide; the limits of the model stay far below 2^32, where no counter
\* wraps around.
\* buildLoop: [ir, condp, resp]; body is what the build callback adds to
\* the loop after the statement that clears the condition variable.
buildLoop(ir, name, body) ==
    LET condp == "__V" \o name \o "Continue" IN
    [ir    |-> createTemp(ir, condp, "bit", 1),
     condp |-> condp,
     resp  |-> << setVar(condp, 1),
                  While(VarRef(condp), << setVar(condp, 0) >> \o body) >>]

\* makeEvalLoop with the counter compared with limit + 1.
makeEvalLoop_LimitPlusOne(ir, tag, name, trigVscp, trigDumpp, computeTriggers, makeBody) ==
    LET counterp  == "__V" \o tag \o "IterCount"
        continuep == "__V" \o tag \o "Continue"
        limit     == opt.convergeLimit
        ifp == If(AnyOf(trigVscp),
                  << setVar(continuep, 1),
                     If(Bin("Gt", VarRef(counterp), Const(limit + 1)),
                        << Text("debug", trigDumpp), Text("fatal", name) >>, <<>>),
                     Assign(VarRef(counterp), Bin("Add", VarRef(counterp), Const(1))) >>
                  \o makeBody,
                  <<>>)
    IN  Let(buildLoop(createTemp(ir, counterp, "uint", 32), tag, computeTriggers \o << ifp >>),
            LAMBDA loop :
                [ir |-> loop.ir, counterp |-> counterp,
                 nodep |-> << setVar(counterp, 0) >> \o loop.resp])

\* makeEvalLoop with the body after the test of the triggers, not inside it.
makeEvalLoop_BodyAlways(ir, tag, name, trigVscp, trigDumpp, computeTriggers, makeBody) ==
    LET counterp  == "__V" \o tag \o "IterCount"
        continuep == "__V" \o tag \o "Continue"
        limit     == opt.convergeLimit
        ifp == If(AnyOf(trigVscp),
                  << setVar(continuep, 1),
                     If(Bin("Gt", VarRef(counterp), Const(limit)),
                        << Text("debug", trigDumpp), Text("fatal", name) >>, <<>>),
                     Assign(VarRef(counterp), Bin("Add", VarRef(counterp), Const(1))) >>,
                  <<>>)
    IN  Let(buildLoop(createTemp(ir, counterp, "uint", 32), tag,
                      computeTriggers \o << ifp >> \o makeBody),
            LAMBDA loop :
                [ir |-> loop.ir, counterp |-> counterp,
                 nodep |-> << setVar(counterp, 0) >> \o loop.resp])

\* makeEvalLoop with the counter incremented after the body.
makeEvalLoop_IncAfterBody(ir, tag, name, trigVscp, trigDumpp, computeTriggers, makeBody) ==
    LET counterp  == "__V" \o tag \o "IterCount"
        continuep == "__V" \o tag \o "Continue"
        limit     == opt.convergeLimit
        ifp == If(AnyOf(trigVscp),
                  << setVar(continuep, 1),
                     If(Bin("Gt", VarRef(counterp), Const(limit)),
                        << Text("debug", trigDumpp), Text("fatal", name) >>, <<>>) >>
                  \o makeBody
                  \o << Assign(VarRef(counterp), Bin("Add", VarRef(counterp), Const(1))) >>,
                  <<>>)
    IN  Let(buildLoop(createTemp(ir, counterp, "uint", 32), tag, computeTriggers \o << ifp >>),
            LAMBDA loop :
                [ir |-> loop.ir, counterp |-> counterp,
                 nodep |-> << setVar(counterp, 0) >> \o loop.resp])

\* makeEvalLoop: [ir, counterp, nodep].
makeEvalLoop(ir, tag, name, trigVscp, trigDumpp, computeTriggers, makeBody) ==
    LET counterp  == "__V" \o tag \o "IterCount"
        continuep == "__V" \o tag \o "Continue"
        limit     == opt.convergeLimit
        ifp == If(AnyOf(trigVscp),
                  << setVar(continuep, 1),
                     If(Bin("Gt", VarRef(counterp), Const(limit)),
                        << Text("debug", trigDumpp), Text("fatal", name) >>, <<>>),
                     Assign(VarRef(counterp), Bin("Add", VarRef(counterp), Const(1))) >>
                  \o makeBody,
                  <<>>)
    IN  Let(buildLoop(createTemp(ir, counterp, "uint", 32), tag, computeTriggers \o << ifp >>),
            LAMBDA loop :
                [ir |-> loop.ir, counterp |-> counterp,
                 nodep |-> << setVar(counterp, 0) >> \o loop.resp])

(***************************************************************************)
(* Small utilities of the pass.                                            *)
(***************************************************************************)
\* remapSensitivities: every AstActive of lbs that is not combinational
\* gets senTreeMap.at(its tree); at() throws on a tree the map lacks.
remapSensitivities(lbs, senTreeMap) ==
    [i \in 1..Len(lbs) |->
        IF hasCombo(lbs[i].sensesp) THEN lbs[i]
        ELSE IF lbs[i].sensesp \in DOMAIN senTreeMap
             THEN [lbs[i] EXCEPT !.trigp = senTreeMap[lbs[i].sensesp]]
             ELSE [lbs[i] EXCEPT !.trigp = -1]]

remapThrows(lbs, senTreeMap) ==
    \E i \in 1..Len(lbs) :
        ~hasCombo(lbs[i].sensesp) /\ lbs[i].sensesp \notin DOMAIN senTreeMap

RECURSIVE nodeCount(_)
\* AstNode::nodeCount of a statement: the statement and the nodes under
\* it (a logic statement counts as an assignment of one variable to
\* another).
nodeCount(nodep) ==
    LET RECURSIVE sum(_)
        sum(l) == IF l = <<>> THEN 0 ELSE nodeCount(Head(l)) + sum(Tail(l))
    IN  CASE nodep.op = "Logic" -> 3
          [] nodep.op = "NodeProcedure" -> 1 + sum(nodep.bodysp)
          [] nodep.op = "If" -> 2 + sum(nodep.ifsp) + sum(nodep.elsesp)
          [] nodep.op = "While" -> 2 + sum(nodep.bodysp)
          [] nodep.op = "Assign" -> 3
          [] OTHER -> 1

RECURSIVE nodeCountAll(_)
nodeCountAll(l) == IF l = <<>> THEN 0 ELSE nodeCount(Head(l)) + nodeCountAll(Tail(l))

(***************************************************************************)
(* splitCheck.                                                             *)
(***************************************************************************)
RECURSIVE splitFrom_DropFirst(_, _, _, _, _, _)
\* The loop of splitCheck that leaves the statement that opens a new
\* function out of it.
splitFrom_DropFirst(ir, ofuncp, todo, funcnum, func_stmts, funcp) ==
    IF todo = <<>> THEN ir
    ELSE LET itemp == Head(todo)
             stmts == nodeCount(itemp)
             name  == ofuncp \o "__" \o ToString(funcnum)
             o     == ir.funcs[funcIndex(ir, ofuncp)]
         IN  IF funcp = "" \/ (func_stmts + stmts) > opt.outputSplitCFuncs
             THEN splitFrom_DropFirst(
                    addStmtsp(
                      addStmtsp(
                        [ir EXCEPT !.funcs =
                            Append(@, [name |-> name, scopep |-> o.scopep,
                                       slow |-> o.slow, entryPoint |-> FALSE,
                                       stmtsp |-> <<>>])],
                        ofuncp, << CCall(name) >>),
                      name, <<>>),
                    ofuncp, Tail(todo), funcnum + 1, stmts, name)
             ELSE splitFrom_DropFirst(addStmtsp(ir, funcp, << itemp >>),
                            ofuncp, Tail(todo), funcnum, func_stmts + stmts, funcp)

RECURSIVE splitFrom_TestBeforeAdd(_, _, _, _, _, _)
\* The loop of splitCheck that tests the count of the current function
\* without the statement to be added.
splitFrom_TestBeforeAdd(ir, ofuncp, todo, funcnum, func_stmts, funcp) ==
    IF todo = <<>> THEN ir
    ELSE LET itemp == Head(todo)
             stmts == nodeCount(itemp)
             name  == ofuncp \o "__" \o ToString(funcnum)
             o     == ir.funcs[funcIndex(ir, ofuncp)]
         IN  IF funcp = "" \/ func_stmts > opt.outputSplitCFuncs
             THEN splitFrom_TestBeforeAdd(
                    addStmtsp(
                      addStmtsp(
                        [ir EXCEPT !.funcs =
                            Append(@, [name |-> name, scopep |-> o.scopep,
                                       slow |-> o.slow, entryPoint |-> FALSE,
                                       stmtsp |-> <<>>])],
                        ofuncp, << CCall(name) >>),
                      name, << itemp >>),
                    ofuncp, Tail(todo), funcnum + 1, stmts, name)
             ELSE splitFrom_TestBeforeAdd(addStmtsp(ir, funcp, << itemp >>),
                            ofuncp, Tail(todo), funcnum, func_stmts + stmts, funcp)

RECURSIVE splitFrom(_, _, _, _, _, _)
\* The while loop of splitCheck over the unlinked statements; ir holds the
\* functions made so far, funcp is the name of the current one ("": none).
splitFrom(ir, ofuncp, todo, funcnum, func_stmts, funcp) ==
    IF todo = <<>> THEN ir
    ELSE LET itemp == Head(todo)
             stmts == nodeCount(itemp)
             name  == ofuncp \o "__" \o ToString(funcnum)
             o     == ir.funcs[funcIndex(ir, ofuncp)]
         IN  IF funcp = "" \/ (func_stmts + stmts) > opt.outputSplitCFuncs
             THEN splitFrom(
                    addStmtsp(
                      addStmtsp(
                        [ir EXCEPT !.funcs =
                            Append(@, [name |-> name, scopep |-> o.scopep,
                                       slow |-> o.slow, entryPoint |-> FALSE,
                                       stmtsp |-> <<>>])],
                        ofuncp, << CCall(name) >>),
                      name, << itemp >>),
                    ofuncp, Tail(todo), funcnum + 1, stmts, name)
             ELSE splitFrom(addStmtsp(ir, funcp, << itemp >>),
                            ofuncp, Tail(todo), funcnum, func_stmts + stmts, funcp)

\* splitCheck without the test of the node count: it splits every function
\* that has statements.
splitCheck_NoThreshold(ir, ofuncp) ==
    LET body == stmtsp(ir, ofuncp) IN
    IF opt.outputSplitCFuncs = 0 \/ body = <<>> THEN ir
    ELSE splitFrom([ir EXCEPT !.funcs[funcIndex(ir, ofuncp)].stmtsp = <<>>],
                   ofuncp, body, 0, 0, "")

\* splitCheck that returns also when the node count equals the option.
splitCheck_AboveThreshold(ir, ofuncp) ==
    LET body == stmtsp(ir, ofuncp) IN
    IF opt.outputSplitCFuncs = 0 \/ body = <<>> THEN ir
    ELSE IF 1 + nodeCountAll(body) <= opt.outputSplitCFuncs THEN ir
    ELSE splitFrom([ir EXCEPT !.funcs[funcIndex(ir, ofuncp)].stmtsp = <<>>],
                   ofuncp, body, 0, 0, "")

\* splitCheck(ofuncp): the AstCFunc's own node counts as one.
splitCheck(ir, ofuncp) ==
    LET body == stmtsp(ir, ofuncp) IN
    IF opt.outputSplitCFuncs = 0 \/ body = <<>> THEN ir
    ELSE IF 1 + nodeCountAll(body) < opt.outputSplitCFuncs THEN ir
    ELSE splitFrom([ir EXCEPT !.funcs[funcIndex(ir, ofuncp)].stmtsp = <<>>],
                   ofuncp, body, 0, 0, "")

(***************************************************************************)
(* orderSequentially and the functions made with it.                       *)
(***************************************************************************)
\* The statements an AstActive gives its sub-function: a procedure gives
\* its body (nothing when it has none), any other statement itself.
RECURSIVE movedStmts(_)
movedStmts(logic) ==
    IF logic = <<>> THEN <<>>
    ELSE (IF Head(logic).op = "NodeProcedure" THEN Head(logic).bodysp ELSE << Head(logic) >>)
         \o movedStmts(Tail(logic))

RECURSIVE orderFrom_CallEveryTime(_, _, _, _)
\* The loop of orderSequentially without the test of user1p: a call is
\* added for every entry.
orderFrom_CallEveryTime(st, funcp, lbs, user1p) ==
    IF lbs = <<>> THEN st
    ELSE LET activep == Head(lbs)
             scopep  == activep.scopep
             subName == funcp \o "__" \o scopep
             top     == st.ir.funcs[funcIndex(st.ir, funcp)]
             ir1 == addStmtsp(
                      IF scopep \notin user1p
                      THEN [st.ir EXCEPT !.funcs =
                               Append(@, [name |-> subName, scopep |-> scopep,
                                          slow |-> top.slow, entryPoint |-> FALSE,
                                          stmtsp |-> <<>>])]
                      ELSE st.ir,
                      funcp, << CCall(subName) >>)
         IN  orderFrom_CallEveryTime(
                 [ir |-> addStmtsp(ir1, subName, movedStmts(activep.stmtsp)),
                  netlist |-> SelectSeq(st.netlist, LAMBDA a : a.id # activep.id)],
                 funcp, Tail(lbs), user1p \cup {scopep})

RECURSIVE orderFrom_Prepend(_, _, _, _)
\* The loop of orderSequentially with the statements put at the head of
\* the sub-function.
orderFrom_Prepend(st, funcp, lbs, user1p) ==
    IF lbs = <<>> THEN st
    ELSE LET activep == Head(lbs)
             scopep  == activep.scopep
             subName == funcp \o "__" \o scopep
             top     == st.ir.funcs[funcIndex(st.ir, funcp)]
             ir1 == IF scopep \notin user1p
                    THEN addStmtsp(
                           [st.ir EXCEPT !.funcs =
                               Append(@, [name |-> subName, scopep |-> scopep,
                                          slow |-> top.slow, entryPoint |-> FALSE,
                                          stmtsp |-> <<>>])],
                           funcp, << CCall(subName) >>)
                    ELSE st.ir
         IN  orderFrom_Prepend(
                 [ir |-> addHereThisAsNext(ir1, subName, movedStmts(activep.stmtsp)),
                  netlist |-> SelectSeq(st.netlist, LAMBDA a : a.id # activep.id)],
                 funcp, Tail(lbs), user1p \cup {scopep})

RECURSIVE orderFrom(_, _, _, _)
\* The loop of orderSequentially; st is [ir, netlist], user1p the set of
\* scopes that have their sub-function.
orderFrom(st, funcp, lbs, user1p) ==
    IF lbs = <<>> THEN st
    ELSE LET activep == Head(lbs)
             scopep  == activep.scopep
             subName == funcp \o "__" \o scopep
             top     == st.ir.funcs[funcIndex(st.ir, funcp)]
             ir1 == IF scopep \notin user1p
                    THEN addStmtsp(
                           [st.ir EXCEPT !.funcs =
                               Append(@, [name |-> subName, scopep |-> scopep,
                                          slow |-> top.slow, entryPoint |-> FALSE,
                                          stmtsp |-> <<>>])],
                           funcp, << CCall(subName) >>)
                    ELSE st.ir
         IN  orderFrom([ir |-> addStmtsp(ir1, subName, movedStmts(activep.stmtsp)),
                        netlist |-> SelectSeq(st.netlist, LAMBDA a : a.id # activep.id)],
                       funcp, Tail(lbs), user1p \cup {scopep})

\* orderSequentially that leaves the AstActives linked.
orderSequentially_NoUnlink(ir, nl, funcp, lbs) ==
    [ir |-> orderFrom([ir |-> ir, netlist |-> nl], funcp, lbs, {}).ir, netlist |-> nl]

\* orderSequentially(funcp, lbs): [ir, netlist].
orderSequentially(ir, nl, funcp, lbs) ==
    orderFrom([ir |-> ir, netlist |-> nl], funcp, lbs, {})

(***************************************************************************)
(* gatherLogicClasses.                                                     *)
(***************************************************************************)
EmptyClasses ==
    [m_static |-> <<>>, m_initial |-> <<>>, m_final |-> <<>>,
     m_comb |-> <<>>, m_clocked |-> <<>>, m_hybrid |-> <<>>]

BucketNames == {"m_static", "m_initial", "m_final", "m_comb", "m_clocked"}

\* classOf without the test for an empty statement list.
classOf_NoEmptyTest(activep) ==
    LET senTreep == activep.sensesp IN
    IF hasStatic(senTreep) THEN "m_static"
    ELSE IF hasInitial(senTreep) THEN "m_initial"
    ELSE IF hasFinal(senTreep) THEN "m_final"
    ELSE IF hasCombo(senTreep) THEN "m_comb"
    ELSE "m_clocked"

\* classOf without the assertion of the combinational branch.
classOf_NoComboAssert(activep) ==
    LET senTreep == activep.sensesp IN
    IF activep.stmtsp = <<>> THEN "empty"
    ELSE IF hasStatic(senTreep)
         THEN (IF singleSenItem(senTreep) THEN "m_static" ELSE "fail")
    ELSE IF hasInitial(senTreep)
         THEN (IF singleSenItem(senTreep) THEN "m_initial" ELSE "fail")
    ELSE IF hasFinal(senTreep)
         THEN (IF singleSenItem(senTreep) THEN "m_final" ELSE "fail")
    ELSE IF hasCombo(senTreep) THEN "m_comb"
    ELSE (IF hasClocked(senTreep) THEN "m_clocked" ELSE "fail")

\* The branch of the if-chain an AstActive takes: "empty", a bucket, or
\* "fail" when the UASSERT_OBJ of its branch fires.
classOf(activep) ==
    LET senTreep == activep.sensesp IN
    IF activep.stmtsp = <<>> THEN "empty"
    ELSE IF hasStatic(senTreep)
         THEN (IF singleSenItem(senTreep) THEN "m_static" ELSE "fail")
    ELSE IF hasInitial(senTreep)
         THEN (IF singleSenItem(senTreep) THEN "m_initial" ELSE "fail")
    ELSE IF hasFinal(senTreep)
         THEN (IF singleSenItem(senTreep) THEN "m_final" ELSE "fail")
    ELSE IF hasCombo(senTreep)
         THEN (IF singleSenItem(senTreep) THEN "m_comb" ELSE "fail")
    ELSE (IF hasClocked(senTreep) THEN "m_clocked" ELSE "fail")

\* The visiting order: scope by scope, the AstActives of a scope in order.
visitOrder(nl) ==
    Flatten([k \in 1..Len(ScopeOrder) |-> SelectSeqBy(nl, ScopeOrder[k])])

RECURSIVE gatherFrom(_, _)
\* The classifier over the AstActives still to visit; acc is
\* [result, empty, failed].  A failed assertion aborts the walk.
gatherFrom(todo, acc) ==
    IF todo = <<>> \/ acc.failed THEN acc
    ELSE LET activep == Head(todo)
             c == classOf(activep)
         IN  gatherFrom(Tail(todo),
                CASE c = "empty" -> [acc EXCEPT !.empty = @ \cup {activep.id}]
                  [] c = "fail"  -> [acc EXCEPT !.failed = TRUE, !.failedAt = activep.id]
                  [] OTHER       -> [acc EXCEPT !.result[c] = Append(@, activep)])

\* gatherLogicClasses unlinking every AstActive it has classified.
gatherLogicClasses_Unlink(nl) ==
    LET acc == gatherFrom(visitOrder(nl),
                          [result |-> EmptyClasses, empty |-> {}, failed |-> FALSE,
                           failedAt |-> 0])
    IN  [result   |-> acc.result,
         failed   |-> acc.failed,
         failedAt |-> acc.failedAt,
         netlist  |-> <<>>]

\* gatherLogicClasses: the buckets, whether an assertion failed, and the
\* netlist with the empty AstActives unlinked and deleted.
gatherLogicClasses(nl) ==
    LET acc == gatherFrom(visitOrder(nl),
                          [result |-> EmptyClasses, empty |-> {}, failed |-> FALSE,
                           failedAt |-> 0])
    IN  [result   |-> acc.result,
         failed   |-> acc.failed,
         failedAt |-> acc.failedAt,
         netlist  |-> IF acc.failed THEN nl
                      ELSE SelectSeq(nl, LAMBDA a : a.id \notin acc.empty)]

(***************************************************************************)
(* The passes V3Sched calls but does not define (V3Order, V3SchedAcyclic,  *)
(* V3SchedPartition, V3SchedReplicate), as far as the driver depends on    *)
(* them.  What a block's logic is like is the 'kind' of its statements:    *)
(*   "cyc"  combinational logic on a combinational cycle (made hybrid),    *)
(*   "blk"  logic partition puts in the 'act' region,                      *)
(*   "pre"  logic partition puts in the 'pre' region,                      *)
(*   any other logic goes to the 'nba' region;                             *)
(* combinational logic of the top scope reads a top level input and is     *)
(* replicated into the 'ico' region.                                       *)
(***************************************************************************)
\* A new AstActive (not linked under a scope) for the logic of activep.
newActive(activep, tag, senTreep) ==
    [activep EXCEPT !.id = <<tag, activep.id>>, !.sensesp = senTreep]

\* breakCycles: [m_comb, m_hybrid]; the cyclic logic leaves m_comb and
\* comes back hybrid, sensitive to the variables it reads.
breakCycles(comb) ==
    [m_comb   |-> SelectSeq(comb, LAMBDA a : a.kind # "cyc"),
     m_hybrid |-> LET cyc == SelectSeq(comb, LAMBDA a : a.kind = "cyc") IN
                  [i \in 1..Len(cyc) |->
                      [cyc[i] EXCEPT !.sensesp =
                          IF cyc[i].scopep = "top" THEN "sHybA" ELSE "sHybAB"]]]

regionOf(activep) ==
    CASE activep.kind = "blk" -> "m_act"
      [] activep.kind = "pre" -> "m_pre"
      [] OTHER -> "m_nba"

\* partition: the regions, made of new AstActives that hold the statements
\* of the AstActives of the three classes, which are left empty.
partition(clocked, comb, hybrid) ==
    LET all == clocked \o comb \o hybrid
        region(r) == LET sel == SelectSeq(all, LAMBDA a : regionOf(a) = r) IN
                     [i \in 1..Len(sel) |-> newActive(sel[i], "part", sel[i].sensesp)]
    IN  [m_pre |-> region("m_pre"), m_act |-> region("m_act"), m_nba |-> region("m_nba")]

\* replicateLogic: combinational and hybrid logic replicated into the
\* regions that read what it drives.
replicateLogic(regions) ==
    LET all  == regions.m_act \o regions.m_nba
        comb == SelectSeq(all, LAMBDA a : hasCombo(a.sensesp) \/ hasHybrid(a.sensesp))
        ico  == SelectSeq(comb, LAMBDA a : a.scopep = "top")
        act  == SelectSeq(regions.m_nba, LAMBDA a : hasHybrid(a.sensesp))
    IN  [m_ico |-> [i \in 1..Len(ico) |-> newActive(ico[i], "ico", ico[i].sensesp)],
         m_act |-> [i \in 1..Len(act) |-> newActive(act[i], "act", act[i].sensesp)],
         m_nba |-> <<>>]

\* V3Order::order: one function "_eval_<name>" holding the logic of the
\* given LogicByScopes.
order(ir, lbsps, name) ==
    LET funcp == "_eval_" \o name
        logic == Flatten([i \in 1..Len(Flatten(lbsps)) |->
                            movedStmts(Flatten(lbsps)[i].stmtsp)])
    IN  addStmtsp(makeSubFunction(ir, funcp, name = "stl"), funcp, logic)

(***************************************************************************)
(* The steps of V3Sched::schedule.  A step maps the record S of the        *)
(* driver's state to the record after it:                                  *)
(*   netlist, logicClasses, logicRegions, logicReplicas, ir, loc,          *)
(*   dpiExportTriggerp.                                                    *)
(***************************************************************************)
NoRegions == [m_pre |-> <<>>, m_act |-> <<>>, m_nba |-> <<>>]

NoReplicas == [m_ico |-> <<>>, m_act |-> <<>>, m_nba |-> <<>>]

NoKit == [m_vscp |-> "", m_funcp |-> "", m_dumpp |-> "", m_map |-> << >>]

\* The locals of schedule and what it remembers on the netlist.
NoLoc ==
    [initp |-> "", stlTrig |-> NoKit, icoTrig |-> NoKit, actTrig |-> NoKit,
     stlSenTreeps |-> <<>>, icoSenTreeps |-> <<>>, actSenTreeps |-> <<>>,
     stlExtra |-> 0, icoExtra |-> 0, actExtra |-> 0,
     icoLoopp |-> <<>>, preTrigVscp |-> "", nbaTrigVscp |-> "",
     preTrigMap |-> << >>, nbaTrigMap |-> << >>,
     extraSenTrees |-> <<>>,
     actFuncp |-> "", nbaFuncp |-> "", evalp |-> "", evalNbap |-> ""]

\* Step 1
stepGather(S) ==
    Let(gatherLogicClasses(S.netlist), LAMBDA g :
        [S EXCEPT !.logicClasses = g.result, !.netlist = g.netlist,
                  !.ir.failed = g.failed])

createStatic(S) ==
    Let(orderSequentially(makeTopFunction(S.ir, "_eval_static", TRUE), S.netlist,
                          "_eval_static", S.logicClasses.m_static),
        LAMBDA o : [S EXCEPT !.ir = splitCheck(o.ir, "_eval_static"),
                             !.netlist = o.netlist])

createInitial(S) ==
    Let(orderSequentially(makeTopFunction(S.ir, "_eval_initial", TRUE), S.netlist,
                          "_eval_initial", S.logicClasses.m_initial),
        LAMBDA o : [S EXCEPT !.ir = o.ir, !.netlist = o.netlist,
                             !.loc.initp = "_eval_initial"])

createFinal(S) ==
    Let(orderSequentially(makeTopFunction(S.ir, "_eval_final", TRUE), S.netlist,
                          "_eval_final", S.logicClasses.m_final),
        LAMBDA o : [S EXCEPT !.ir = splitCheck(o.ir, "_eval_final"),
                             !.netlist = o.netlist])

\* Step 3
stepBreakCycles(S) ==
    Let(breakCycles(S.logicClasses.m_comb), LAMBDA r :
        [S EXCEPT !.logicClasses.m_comb = r.m_comb,
                  !.logicClasses.m_hybrid = r.m_hybrid])

\* createSettle with a second extra trigger.
createSettle_TwoExtra(S) ==
    LET funcp  == "_eval_settle"
        comb   == S.logicClasses.m_comb
        hybrid == S.logicClasses.m_hybrid
        firstIterationTrigger == 0
        extraTriggers == firstIterationTrigger + 2
        senTreeps == getSenTreesUsedBy(<< comb, hybrid >>)
    IN  IF comb = <<>> /\ hybrid = <<>>
        THEN [S EXCEPT !.ir = makeTopFunction(S.ir, funcp, TRUE)]
        ELSE
        Let(createTriggers(makeTopFunction(S.ir, funcp, TRUE), senTreeps, "stl",
                           extraTriggers, TRUE), LAMBDA t :
        Let(createTriggerSenTree(t.ir, t.trig, firstIterationTrigger), LAMBDA inputChanged :
        Let(makeEvalLoop(
                splitCheck(order(inputChanged.ir,
                                 << comb, remapSensitivities(hybrid, t.trig.m_map) >>, "stl"),
                           "_eval_stl"),
                "stl", "Settle", t.trig.m_vscp, t.trig.m_dumpp,
                << CCall(t.trig.m_funcp) >>, << CCall("_eval_stl") >>), LAMBDA pair :
            [S EXCEPT !.ir = [addStmtsp(
                                 addFirstIterationTriggerAssignment(
                                     pair.ir, t.trig, pair.counterp, firstIterationTrigger),
                                 funcp, pair.nodep)
                              EXCEPT !.failed = @ \/ remapThrows(hybrid, t.trig.m_map)],
                      !.loc.stlTrig = t.trig,
                      !.loc.stlSenTreeps = senTreeps,
                      !.loc.stlExtra = extraTriggers,
                      !.loc.extraSenTrees = Append(@, inputChanged.resultp)])))

\* createSettle that makes _eval_settle only when there is logic to settle.
createSettle_LateFunction(S) ==
    LET funcp  == "_eval_settle"
        comb   == S.logicClasses.m_comb
        hybrid == S.logicClasses.m_hybrid
        firstIterationTrigger == 0
        extraTriggers == firstIterationTrigger + 1
        senTreeps == getSenTreesUsedBy(<< comb, hybrid >>)
    IN  IF comb = <<>> /\ hybrid = <<>>
        THEN S
        ELSE
        Let(createTriggers(makeTopFunction(S.ir, funcp, TRUE), senTreeps, "stl",
                           extraTriggers, TRUE), LAMBDA t :
        Let(createTriggerSenTree(t.ir, t.trig, firstIterationTrigger), LAMBDA inputChanged :
        Let(makeEvalLoop(
                splitCheck(order(inputChanged.ir,
                                 << comb, remapSensitivities(hybrid, t.trig.m_map) >>, "stl"),
                           "_eval_stl"),
                "stl", "Settle", t.trig.m_vscp, t.trig.m_dumpp,
                << CCall(t.trig.m_funcp) >>, << CCall("_eval_stl") >>), LAMBDA pair :
            [S EXCEPT !.ir = [addStmtsp(
                                 addFirstIterationTriggerAssignment(
                                     pair.ir, t.trig, pair.counterp, firstIterationTrigger),
                                 funcp, pair.nodep)
                              EXCEPT !.failed = @ \/ remapThrows(hybrid, t.trig.m_map)],
                      !.loc.stlTrig = t.trig,
                      !.loc.stlSenTreeps = senTreeps,
                      !.loc.stlExtra = extraTriggers,
                      !.loc.extraSenTrees = Append(@, inputChanged.resultp)])))

\* Step 4
createSettle(S) ==
    LET funcp  == "_eval_settle"
        comb   == S.logicClasses.m_comb
        hybrid == S.logicClasses.m_hybrid
        firstIterationTrigger == 0
        extraTriggers == firstIterationTrigger + 1
        senTreeps == getSenTreesUsedBy(<< comb, hybrid >>)
    IN  IF comb = <<>> /\ hybrid = <<>>
        THEN [S EXCEPT !.ir = makeTopFunction(S.ir, funcp, TRUE)]
        ELSE
        Let(createTriggers(makeTopFunction(S.ir, funcp, TRUE), senTreeps, "stl",
                           extraTriggers, TRUE), LAMBDA t :
        Let(createTriggerSenTree(t.ir, t.trig, firstIterationTrigger), LAMBDA inputChanged :
        Let(makeEvalLoop(
                splitCheck(order(inputChanged.ir,
                                 << comb, remapSensitivities(hybrid, t.trig.m_map) >>, "stl"),
                           "_eval_stl"),
                "stl", "Settle", t.trig.m_vscp, t.trig.m_dumpp,
                << CCall(t.trig.m_funcp) >>, << CCall("_eval_stl") >>), LAMBDA pair :
            [S EXCEPT !.ir = [addStmtsp(
                                 addFirstIterationTriggerAssignment(
                                     pair.ir, t.trig, pair.counterp, firstIterationTrigger),
                                 funcp, pair.nodep)
                              EXCEPT !.failed = @ \/ remapThrows(hybrid, t.trig.m_map)],
                      !.loc.stlTrig = t.trig,
                      !.loc.stlSenTreeps = senTreeps,
                      !.loc.stlExtra = extraTriggers,
                      !.loc.extraSenTrees = Append(@, inputChanged.resultp)])))

\* Step 5
stepPartition(S) ==
    LET lc == S.logicClasses
        consumed == Ids(lc.m_clocked) \cup Ids(lc.m_comb) \cup Ids(lc.m_hybrid)
    IN  [S EXCEPT !.logicRegions = partition(lc.m_clocked, lc.m_comb, lc.m_hybrid),
                  !.netlist = [i \in 1..Len(S.netlist) |->
                                  IF S.netlist[i].id \in consumed
                                  THEN [S.netlist[i] EXCEPT !.stmtsp = <<>>]
                                  ELSE S.netlist[i]]]

\* Step 6
stepReplicate(S) == [S EXCEPT !.logicReplicas = replicateLogic(S.logicRegions)]

\* Step 7
createInputCombLoop(S) ==
    LET logic  == S.logicReplicas.m_ico
        dpiExportTriggerVscp == S.dpiExportTriggerp
        firstIterationTrigger == 0
        dpiExportTriggerIndex == IF dpiExportTriggerVscp # "" THEN 1 ELSE UINT_MAX
        extraTriggers == IF dpiExportTriggerVscp # "" THEN 2 ELSE 1
        senTreeps == getSenTreesUsedBy(<< logic >>)
    IN  IF logic = <<>> THEN S
        ELSE
        Let(createTriggers(S.ir, senTreeps, "ico", extraTriggers, FALSE), LAMBDA t :
        Let(createTriggerSenTree(
                IF dpiExportTriggerVscp # ""
                THEN addDpiExportTriggerAssignment(t.ir, t.trig, dpiExportTriggerVscp,
                                                   dpiExportTriggerIndex)
                ELSE t.ir,
                t.trig, firstIterationTrigger), LAMBDA inputChanged :
        Let(createTriggerSenTree(inputChanged.ir, t.trig, dpiExportTriggerIndex),
            LAMBDA dpiExportTriggered :
        Let(makeEvalLoop(
                splitCheck(order(dpiExportTriggered.ir,
                                 << remapSensitivities(logic, t.trig.m_map) >>, "ico"),
                           "_eval_ico"),
                "ico", "Input combinational", t.trig.m_vscp, t.trig.m_dumpp,
                << CCall(t.trig.m_funcp) >>, << CCall("_eval_ico") >>), LAMBDA pair :
            [S EXCEPT !.ir = [addFirstIterationTriggerAssignment(
                                  pair.ir, t.trig, pair.counterp, firstIterationTrigger)
                              EXCEPT !.failed = @ \/ remapThrows(logic, t.trig.m_map)],
                      !.logicReplicas.m_ico = <<>>,
                      !.loc.icoTrig = t.trig,
                      !.loc.icoSenTreeps = senTreeps,
                      !.loc.icoExtra = extraTriggers,
                      !.loc.icoLoopp = pair.nodep,
                      !.loc.extraSenTrees =
                          @ \o << inputChanged.resultp, dpiExportTriggered.resultp >>]))))

\* cloneMapWithNewTriggerReferences that clones the trees but leaves their
\* references to the 'act' trigger vector in place.
cloneMapWithNewTriggerReferences_KeepRef(ir, map, vscp) ==
    LET keys == DOMAIN map
        ord  == CHOOSE q \in [1..Cardinality(keys) -> keys] :
                    /\ \A i, j \in 1..Cardinality(keys) : i < j => map[q[i]] < map[q[j]]
    IN  [ir |-> [ir EXCEPT !.senTrees =
                    @ \o [i \in 1..Cardinality(keys) |-> ir.senTrees[map[ord[i]]]]],
         newMap |-> [k \in keys |->
                        Len(ir.senTrees) + (CHOOSE i \in 1..Cardinality(keys) : ord[i] = k)]]

\* cloneMapWithNewTriggerReferences: [ir, newMap]; every mapped AstSenTree
\* is cloned with its reference to the act vector replaced by vscp.
cloneMapWithNewTriggerReferences(ir, map, vscp) ==
    LET keys == DOMAIN map
        \* the order in which the unordered_map is walked is unspecified:
        \* clones are added in the order of the trees they are cloned from
        ord  == CHOOSE q \in [1..Cardinality(keys) -> keys] :
                    /\ \A i, j \in 1..Cardinality(keys) : i < j => map[q[i]] < map[q[j]]
    IN  [ir |-> [ir EXCEPT !.senTrees =
                    @ \o [i \in 1..Cardinality(keys) |->
                             [vscp |-> vscp, index |-> ir.senTrees[map[ord[i]]].index]]],
         newMap |-> [k \in keys |->
                        Len(ir.senTrees) + (CHOOSE i \in 1..Cardinality(keys) : ord[i] = k)]]

\* Step 8: the pre/act/nba triggers.
createActTriggers(S) ==
    LET dpiExportTriggerVscp == S.dpiExportTriggerp
        extraTriggers == IF dpiExportTriggerVscp # "" THEN 1 ELSE 0
        dpiExportTriggerIndex == IF dpiExportTriggerVscp # "" THEN 0 ELSE UINT_MAX
        r      == S.logicRegions
        senTreeps == getSenTreesUsedBy(<< r.m_pre, r.m_act, r.m_nba >>)
        width  == Len(senTreeps) + extraTriggers
    IN  Let(createTriggers(S.ir, senTreeps, "act", extraTriggers, FALSE), LAMBDA t :
        Let(cloneMapWithNewTriggerReferences(
                createTemp(
                    createTemp(IF dpiExportTriggerVscp # ""
                               THEN addDpiExportTriggerAssignment(
                                        t.ir, t.trig, dpiExportTriggerVscp,
                                        dpiExportTriggerIndex)
                               ELSE t.ir,
                               "__VpreTriggered", "TRIGGERVEC", width),
                    "__VnbaTriggered", "TRIGGERVEC", width),
                t.trig.m_map, "__VpreTriggered"), LAMBDA pre :
        Let(cloneMapWithNewTriggerReferences(pre.ir, t.trig.m_map, "__VnbaTriggered"),
            LAMBDA nba :
            [S EXCEPT !.ir = nba.ir,
                      !.loc.actTrig = t.trig,
                      !.loc.actSenTreeps = senTreeps,
                      !.loc.actExtra = extraTriggers,
                      !.loc.preTrigVscp = "__VpreTriggered",
                      !.loc.nbaTrigVscp = "__VnbaTriggered",
                      !.loc.preTrigMap = pre.newMap,
                      !.loc.nbaTrigMap = nba.newMap])))

\* Step 9: the 'act' region evaluation function.
createAct(S) ==
    LET r    == S.logicRegions
        pre  == remapSensitivities(r.m_pre, S.loc.preTrigMap)
        act  == remapSensitivities(r.m_act, S.loc.actTrig.m_map)
        rep  == remapSensitivities(S.logicReplicas.m_act, S.loc.actTrig.m_map)
        dpiExportTriggerIndex == IF S.dpiExportTriggerp # "" THEN 0 ELSE UINT_MAX
    IN  Let(createTriggerSenTree(S.ir, S.loc.actTrig, dpiExportTriggerIndex),
            LAMBDA dpiExportTriggered :
            [S EXCEPT !.ir = [splitCheck(order(dpiExportTriggered.ir, << pre, act, rep >>,
                                               "act"), "_eval_act")
                              EXCEPT !.failed =
                                 \/ @
                                 \/ remapThrows(r.m_pre, S.loc.preTrigMap)
                                 \/ remapThrows(r.m_act, S.loc.actTrig.m_map)
                                 \/ remapThrows(S.logicReplicas.m_act, S.loc.actTrig.m_map)],
                      !.logicRegions.m_pre = <<>>,
                      !.logicRegions.m_act = <<>>,
                      !.logicReplicas.m_act = <<>>,
                      !.loc.extraSenTrees = Append(@, dpiExportTriggered.resultp),
                      !.loc.actFuncp = "_eval_act"])

\* Step 10: the 'nba' region evaluation function.
createNba(S) ==
    LET r    == S.logicRegions
        nba  == remapSensitivities(r.m_nba, S.loc.nbaTrigMap)
        rep  == remapSensitivities(S.logicReplicas.m_nba, S.loc.nbaTrigMap)
    IN  [S EXCEPT !.ir = [splitCheck(order(S.ir, << nba, rep >>, "nba"), "_eval_nba")
                          EXCEPT !.failed =
                             \/ @
                             \/ remapThrows(r.m_nba, S.loc.nbaTrigMap)
                             \/ remapThrows(S.logicReplicas.m_nba, S.loc.nbaTrigMap)],
                  !.logicRegions.m_nba = <<>>,
                  !.logicReplicas.m_nba = <<>>,
                  !.loc.nbaFuncp = "_eval_nba",
                  !.loc.evalNbap = "_eval_nba"]

\* The statements of a dump function cloned for another trigger vector:
\* references to the vector replaced, "act" replaced by "nba" in the text.
RECURSIVE cloneDump(_, _, _)
cloneDump(stmts, vscp, name) ==
    IF stmts = <<>> THEN <<>>
    ELSE LET h == Head(stmts)
             c == IF h.op = "If"
                  THEN If([h.condp EXCEPT !.var = vscp],
                          cloneDump(h.ifsp, vscp, name), cloneDump(h.elsesp, vscp, name))
                  ELSE IF h.op = "Text" /\ h.kind = "msg"
                  THEN [h EXCEPT !.name = name]
                  ELSE h
         IN  << c >> \o cloneDump(Tail(stmts), vscp, name)

\* createEval with the NBA body called once after the Active loop, and no
\* NBA loop around the two.
createEval_Once(S) ==
    LET actTrig   == S.loc.actTrig
        preTrigsp == S.loc.preTrigVscp
        nbaTrigsp == S.loc.nbaTrigVscp
        funcp     == "_eval"
        ir0  == makeTopFunction(S.ir, funcp, FALSE)
        ir1  == IF S.loc.icoLoopp # <<>> THEN addStmtsp(ir0, funcp, S.loc.icoLoopp) ELSE ir0
    IN  Let(makeEvalLoop(ir1, "act", "Active", actTrig.m_vscp, actTrig.m_dumpp,
                         << CCall(actTrig.m_funcp) >>,
                         << Method("andNot", preTrigsp, << actTrig.m_vscp, nbaTrigsp >>),
                            Method("set", nbaTrigsp, << actTrig.m_vscp >>),
                            CCall(S.loc.actFuncp) >>), LAMBDA activeEvalLoopp :
            [S EXCEPT !.ir = addStmtsp(activeEvalLoopp.ir, funcp,
                                 activeEvalLoopp.nodep
                                 \o << If(AnyOf(nbaTrigsp), << CCall(S.loc.nbaFuncp) >>,
                                          <<>>) >>),
                      !.loc.evalp = funcp])

\* createEval with the latching of the nba triggers before the computation
\* of the pre triggers.
createEval_SetFirst(S) ==
    LET actTrig   == S.loc.actTrig
        preTrigsp == S.loc.preTrigVscp
        nbaTrigsp == S.loc.nbaTrigVscp
        funcp     == "_eval"
        ir0  == makeTopFunction(S.ir, funcp, FALSE)
        ir1  == IF S.loc.icoLoopp # <<>> THEN addStmtsp(ir0, funcp, S.loc.icoLoopp) ELSE ir0
        at   == funcIndex(S.ir, actTrig.m_dumpp)
        nbaDumpp == [S.ir.funcs[at] EXCEPT
                        !.name = "_dump_triggers__nba",
                        !.stmtsp = cloneDump(@, nbaTrigsp, "nba")]
    IN  Let([ir1 EXCEPT !.funcs =
                SubSeq(@, 1, at) \o << nbaDumpp >> \o SubSeq(@, at + 1, Len(@))],
            LAMBDA ir2 :
        Let(makeEvalLoop(ir2, "act", "Active", actTrig.m_vscp, actTrig.m_dumpp,
                         << CCall(actTrig.m_funcp) >>,
                         << Method("set", nbaTrigsp, << actTrig.m_vscp >>),
                            Method("andNot", preTrigsp, << actTrig.m_vscp, nbaTrigsp >>),
                            CCall(S.loc.actFuncp) >>), LAMBDA activeEvalLoopp :
        Let(makeEvalLoop(activeEvalLoopp.ir, "nba", "NBA", nbaTrigsp, "_dump_triggers__nba",
                         << Method("clear", nbaTrigsp, <<>>) >> \o activeEvalLoopp.nodep,
                         << CCall(S.loc.nbaFuncp) >>), LAMBDA nbaEvalLoopp :
            [S EXCEPT !.ir = addStmtsp(nbaEvalLoopp.ir, funcp, nbaEvalLoopp.nodep),
                      !.loc.evalp = funcp])))

\* createEval without the clearing of the nba triggers at the start of the
\* trigger section of the NBA loop.
createEval_NoClear(S) ==
    LET actTrig   == S.loc.actTrig
        preTrigsp == S.loc.preTrigVscp
        nbaTrigsp == S.loc.nbaTrigVscp
        funcp     == "_eval"
        ir0  == makeTopFunction(S.ir, funcp, FALSE)
        ir1  == IF S.loc.icoLoopp # <<>> THEN addStmtsp(ir0, funcp, S.loc.icoLoopp) ELSE ir0
        at   == funcIndex(S.ir, actTrig.m_dumpp)
        nbaDumpp == [S.ir.funcs[at] EXCEPT
                        !.name = "_dump_triggers__nba",
                        !.stmtsp = cloneDump(@, nbaTrigsp, "nba")]
    IN  Let([ir1 EXCEPT !.funcs =
                SubSeq(@, 1, at) \o << nbaDumpp >> \o SubSeq(@, at + 1, Len(@))],
            LAMBDA ir2 :
        Let(makeEvalLoop(ir2, "act", "Active", actTrig.m_vscp, actTrig.m_dumpp,
                         << CCall(actTrig.m_funcp) >>,
                         << Method("andNot", preTrigsp, << actTrig.m_vscp, nbaTrigsp >>),
                            Method("set", nbaTrigsp, << actTrig.m_vscp >>),
                            CCall(S.loc.actFuncp) >>), LAMBDA activeEvalLoopp :
        Let(makeEvalLoop(activeEvalLoopp.ir, "nba", "NBA", nbaTrigsp, "_dump_triggers__nba",
                         activeEvalLoopp.nodep,
                         << CCall(S.loc.nbaFuncp) >>), LAMBDA nbaEvalLoopp :
            [S EXCEPT !.ir = addStmtsp(nbaEvalLoopp.ir, funcp, nbaEvalLoopp.nodep),
                      !.loc.evalp = funcp])))

\* createEval with the pre triggers computed from the act triggers and the
\* pre triggers of before, not the nba triggers.
createEval_PreFromPre(S) ==
    LET actTrig   == S.loc.actTrig
        preTrigsp == S.loc.preTrigVscp
        nbaTrigsp == S.loc.nbaTrigVscp
        funcp     == "_eval"
        ir0  == makeTopFunction(S.ir, funcp, FALSE)
        ir1  == IF S.loc.icoLoopp # <<>> THEN addStmtsp(ir0, funcp, S.loc.icoLoopp) ELSE ir0
        at   == funcIndex(S.ir, actTrig.m_dumpp)
        nbaDumpp == [S.ir.funcs[at] EXCEPT
                        !.name = "_dump_triggers__nba",
                        !.stmtsp = cloneDump(@, nbaTrigsp, "nba")]
    IN  Let([ir1 EXCEPT !.funcs =
                SubSeq(@, 1, at) \o << nbaDumpp >> \o SubSeq(@, at + 1, Len(@))],
            LAMBDA ir2 :
        Let(makeEvalLoop(ir2, "act", "Active", actTrig.m_vscp, actTrig.m_dumpp,
                         << CCall(actTrig.m_funcp) >>,
                         << Method("andNot", preTrigsp, << actTrig.m_vscp, preTrigsp >>),
                            Method("set", nbaTrigsp, << actTrig.m_vscp >>),
                            CCall(S.loc.actFuncp) >>), LAMBDA activeEvalLoopp :
        Let(makeEvalLoop(activeEvalLoopp.ir, "nba", "NBA", nbaTrigsp, "_dump_triggers__nba",
                         << Method("clear", nbaTrigsp, <<>>) >> \o activeEvalLoopp.nodep,
                         << CCall(S.loc.nbaFuncp) >>), LAMBDA nbaEvalLoopp :
            [S EXCEPT !.ir = addStmtsp(nbaEvalLoopp.ir, funcp, nbaEvalLoopp.nodep),
                      !.loc.evalp = funcp])))

\* Step 11: createEval.
createEval(S) ==
    LET actTrig   == S.loc.actTrig
        preTrigsp == S.loc.preTrigVscp
        nbaTrigsp == S.loc.nbaTrigVscp
        funcp     == "_eval"
        ir0  == makeTopFunction(S.ir, funcp, FALSE)
        ir1  == IF S.loc.icoLoopp # <<>> THEN addStmtsp(ir0, funcp, S.loc.icoLoopp) ELSE ir0
        at   == funcIndex(S.ir, actTrig.m_dumpp)
        nbaDumpp == [S.ir.funcs[at] EXCEPT
                        !.name = "_dump_triggers__nba",
                        !.stmtsp = cloneDump(@, nbaTrigsp, "nba")]
    IN  Let([ir1 EXCEPT !.funcs =
                SubSeq(@, 1, at) \o << nbaDumpp >> \o SubSeq(@, at + 1, Len(@))],
            LAMBDA ir2 :
        Let(makeEvalLoop(ir2, "act", "Active", actTrig.m_vscp, actTrig.m_dumpp,
                         << CCall(actTrig.m_funcp) >>,
                         << Method("andNot", preTrigsp, << actTrig.m_vscp, nbaTrigsp >>),
                            Method("set", nbaTrigsp, << actTrig.m_vscp >>),
                            CCall(S.loc.actFuncp) >>), LAMBDA activeEvalLoopp :
        Let(makeEvalLoop(activeEvalLoopp.ir, "nba", "NBA", nbaTrigsp, "_dump_triggers__nba",
                         << Method("clear", nbaTrigsp, <<>>) >> \o activeEvalLoopp.nodep,
                         << CCall(S.loc.nbaFuncp) >>), LAMBDA nbaEvalLoopp :
            [S EXCEPT !.ir = addStmtsp(nbaEvalLoopp.ir, funcp, nbaEvalLoopp.nodep),
                      !.loc.evalp = funcp])))

\* The end of schedule: createEval, splitCheck(initp), and the DPI export
\* trigger forgotten.
stepEval(S) ==
    Let(createEval(S), LAMBDA E :
        [E EXCEPT !.ir = splitCheck(E.ir, E.loc.initp), !.dpiExportTriggerp = ""])

(***************************************************************************)
(* Spec: V3Sched::schedule, step by step.                                  *)
(***************************************************************************)
\* The shapes of the AstActives of a netlist given to schedule.
ScheduleShapes ==
    { <<"top", "sStatic", "proc">>, <<"sub", "sInitial", "proc">>,
      <<"top", "sInitial", "stmt">>, <<"top", "sFinal", "stmt">>,
      <<"top", "sCombo", "stmt">>, <<"sub", "sCombo", "stmt">>,
      <<"top", "sCombo", "cyc">>, <<"sub", "sCombo", "cyc">>,
      <<"top", "sPosClk", "stmt">>, <<"sub", "sPosClk", "blk">>,
      <<"top", "sChgNeg", "pre">>, <<"sub", "sChgNeg", "stmt">>,
      <<"top", "sEvent", "stmt">>, <<"top", "sIllBoth", "stmt">>,
      <<"sub", "sPosClk", "none">> }

\* The name of the variable netlistp->dpiExportTriggerp() points to.
DpiExportTrigger == "__Vdpi_export_trigger"

\* The configurations schedule is run with.
ScheduleOpts ==
    { [convergeLimit |-> 1, xInitialEdge |-> FALSE, outputSplitCFuncs |-> 0],
      [convergeLimit |-> 1, xInitialEdge |-> TRUE, outputSplitCFuncs |-> 0],
      [convergeLimit |-> 1, xInitialEdge |-> FALSE, outputSplitCFuncs |-> 4] }

\* The state of the driver as one record, and back.
Driver ==
    [netlist |-> netlist, logicClasses |-> logicClasses, logicRegions |-> logicRegions,
     logicReplicas |-> logicReplicas, ir |-> gen, loc |-> loc,
     dpiExportTriggerp |-> dpiExportTriggerp]

Becomes(S) ==
    /\ netlist' = S.netlist
    /\ logicClasses' = S.logicClasses
    /\ logicRegions' = S.logicRegions
    /\ logicReplicas' = S.logicReplicas
    /\ gen' = S.ir
    /\ loc' = S.loc
    /\ dpiExportTriggerp' = S.dpiExportTriggerp

\* No classifier run recorded.
NoFirst ==
    [ran |-> FALSE, input |-> <<>>, result |-> EmptyClasses, netlist |-> <<>>,
     failedAt |-> 0]

\* Nothing has run.
NoHist ==
    [bodyRuns |-> [stl |-> 0, ico |-> 0, act |-> 0, nba |-> 0],
     written  |-> [stl |-> {}, ico |-> {}, act |-> {}, nba |-> {}],
     dpiOps   |-> <<>>,
     actFixed |-> FALSE,
     latched  |-> {},
     ran      |-> [stl |-> FALSE, ico |-> FALSE, act |-> FALSE, nba |-> FALSE],
     fatal    |-> "",
     firedAtCall |-> {},
     changed  |-> {},
     changedAtCall |-> {},
     entry    |-> << >>,
     actSeen  |-> {},
     preSeen  |-> {},
     actEntries |-> 0,
     evals    |-> 0]

Init ==
    /\ pc = "gather"
    /\ \E n \in 0..MaxActives : \E f \in [1..n -> ScheduleShapes] : netlist = netlistOf(f)
    /\ opt \in ScheduleOpts
    /\ dpiExportTriggerp \in {"", DpiExportTrigger}
    /\ logicClasses = EmptyClasses
    /\ firstClasses = NoFirst
    /\ logicRegions = NoRegions
    /\ logicReplicas = NoReplicas
    /\ gen = EmptyIR
    /\ loc = NoLoc
    /\ cont = <<>>
    /\ store = << >>
    /\ hist = NoHist

\* The driver goes on with the state S at the step 'to', or stops when an
\* assertion of the pass has fired.
Advance(S, to) ==
    /\ Becomes(S)
    /\ pc' = IF S.ir.failed THEN "failed" ELSE to
    /\ UNCHANGED <<opt, cont, store, hist>>

GatherLogicClasses ==
    /\ pc = "gather"
    /\ Advance(stepGather(Driver), "static")
    /\ firstClasses' = [firstClasses EXCEPT !.ran = TRUE, !.input = netlist]

\* A later step of the driver.
Go(S, to) == Advance(S, to) /\ UNCHANGED firstClasses

CreateStatic == pc = "static" /\ Go(createStatic(Driver), "initial")

CreateInitial == pc = "initial" /\ Go(createInitial(Driver), "final")

CreateFinal == pc = "final" /\ Go(createFinal(Driver), "breakCycles")

BreakCycles == pc = "breakCycles" /\ Go(stepBreakCycles(Driver), "settle")

CreateSettle == pc = "settle" /\ Go(createSettle(Driver), "partition")

Partition == pc = "partition" /\ Go(stepPartition(Driver), "replicate")

ReplicateLogic == pc = "replicate" /\ Go(stepReplicate(Driver), "ico")

CreateInputCombLoop == pc = "ico" /\ Go(createInputCombLoop(Driver), "triggers")

CreateActTriggers == pc = "triggers" /\ Go(createActTriggers(Driver), "act")

CreateAct == pc = "act" /\ Go(createAct(Driver), "nba")

CreateNba == pc = "nba" /\ Go(createNba(Driver), "eval")

CreateEval == pc = "eval" /\ Go(stepEval(Driver), "done")

Next ==
    \/ GatherLogicClasses
    \/ CreateStatic
    \/ CreateInitial
    \/ CreateFinal
    \/ BreakCycles
    \/ CreateSettle
    \/ Partition
    \/ ReplicateLogic
    \/ CreateInputCombLoop
    \/ CreateActTriggers
    \/ CreateAct
    \/ CreateNba
    \/ CreateEval

Spec == Init /\ [][Next]_vars

(***************************************************************************)
(* SpecEval: the generated functions executed statement by statement, as   *)
(* the model's main loop runs them: _eval_static, _eval_initial,           *)
(* _eval_settle, then _eval after every change of the inputs.              *)
(***************************************************************************)
\* schedule as one function of the driver's state.
schedule(S) ==
    Let(stepGather(S), LAMBDA S1 :
    Let(createFinal(createInitial(createStatic(S1))), LAMBDA S2 :
    Let(createSettle(stepBreakCycles(S2)), LAMBDA S4 :
    Let(stepReplicate(stepPartition(S4)), LAMBDA S6 :
    Let(createInputCombLoop(S6), LAMBDA S7 :
    Let(createActTriggers(S7), LAMBDA S8 :
    Let(createAct(S8), LAMBDA S9 :
    Let(createNba(S9), LAMBDA S10 : stepEval(S10)))))))))

\* The designs that are executed.
EvalDesigns ==
    { << >>,
      << <<"top", "sCombo", "stmt">> >>,
      << <<"top", "sCombo", "cyc">>, <<"top", "sPosClk", "stmt">> >>,
      << <<"top", "sEvent", "blk">>, <<"sub", "sChgNeg", "pre">> >> }

EvalOpts ==
    { [convergeLimit |-> c, xInitialEdge |-> x, outputSplitCFuncs |-> 0] :
          c \in 0..MaxConvergeLimit, x \in BOOLEAN }

\* The signals of the design: the variables its AstSenTrees sense.
Signals == DOMAIN VarScopeOf

\* The signals sensed by the trees of the netlist nl (and by the hybrid
\* trees breakCycles makes from them).
sensedBy(nl) ==
    UNION { {it.sensp : it \in Range(sensesp(t))} :
            t \in {nl[i].sensesp : i \in 1..Len(nl)}
                  \cup {IF nl[i].scopep = "top" THEN "sHybA" ELSE "sHybAB" :
                        i \in {j \in 1..Len(nl) : nl[j].kind = "cyc"}} }
    \ {""}

\* The variables at the start of the execution: everything is zero, no
\* trigger is set.
initialStore(vars0, signals, dpi) ==
    [v \in {vars0[i].name : i \in 1..Len(vars0)} \cup signals
           \cup (IF dpi = "" THEN {} ELSE {dpi}) |->
        IF \E i \in 1..Len(vars0) : vars0[i].name = v /\ vars0[i].kind = "TRIGGERVEC"
        THEN {} ELSE 0]

InitEval ==
    /\ pc = "exec"
    /\ opt \in EvalOpts
    /\ firstClasses = NoFirst
    /\ hist = NoHist
    /\ \E d \in EvalDesigns, dpi \in {"", DpiExportTrigger} :
          LET S == schedule([netlist |-> netlistOf(d), logicClasses |-> EmptyClasses,
                             logicRegions |-> NoRegions, logicReplicas |-> NoReplicas,
                             ir |-> EmptyIR, loc |-> NoLoc, dpiExportTriggerp |-> dpi])
          IN  /\ netlist = S.netlist
              /\ logicClasses = S.logicClasses
              /\ logicRegions = S.logicRegions
              /\ logicReplicas = S.logicReplicas
              /\ gen = S.ir
              /\ loc = S.loc
              /\ dpiExportTriggerp = S.dpiExportTriggerp
              /\ store = initialStore(S.ir.vars, sensedBy(netlistOf(d)), dpi)
    /\ cont = << CCall("_eval_static"), CCall("_eval_initial"), CCall("_eval_settle") >>

RECURSIVE eval(_, _)
\* The value of an expression of the generated code: bits and counters are
\* numbers, a test is 1 or 0.
eval(x, st) ==
    LET bit(b) == IF b THEN 1 ELSE 0 IN
    CASE x.e = "VarRef"  -> st[x.var]
      [] x.e = "Const"   -> x.num
      [] x.e = "Eq"      -> bit(eval(x.lhsp, st) = eval(x.rhsp, st))
      [] x.e = "Neq"     -> bit(eval(x.lhsp, st) # eval(x.rhsp, st))
      [] x.e = "Gt"      -> bit(eval(x.lhsp, st) > eval(x.rhsp, st))
      [] x.e = "Add"     -> eval(x.lhsp, st) + eval(x.rhsp, st)
      [] x.e = "And"     -> bit(eval(x.lhsp, st) = 1 /\ eval(x.rhsp, st) = 1)
      [] x.e = "Or"      -> bit(eval(x.lhsp, st) = 1 \/ eval(x.rhsp, st) = 1)
      [] x.e = "Xor"     -> bit(eval(x.lhsp, st) # eval(x.rhsp, st))
      [] x.e = "Not"     -> 1 - eval(x.lhsp, st)
      [] x.e = "Sel"     -> eval(x.lhsp, st) % 2
      [] x.e = "At"      -> bit(x.index \in st[x.var])
      [] x.e = "Any"     -> bit(st[x.var] # {})
      [] x.e = "IsFired" -> st[x.var]

\* The loop (or region) a variable or a function of the generated code
\* belongs to; "" when it belongs to none.
Regions == {"stl", "ico", "act", "nba"}

continueOf(tag) == "__V" \o tag \o "Continue"

triggeredOf(tag) == "__V" \o tag \o "Triggered"

bodyOf(tag) == "_eval_" \o tag

tagWhere(P(_)) == IF \E r \in Regions : P(r) THEN CHOOSE r \in Regions : P(r) ELSE ""

\* The name makeEvalLoop is given for the loop of a region.
humanName(tag) ==
    CASE tag = "stl" -> "Settle"
      [] tag = "ico" -> "Input combinational"
      [] tag = "act" -> "Active"
      [] tag = "nba" -> "NBA"

\* The bits of the trigger vector vscp.
bitsOf(vscp) ==
    UNION { 0..(gen.vars[i].width - 1) :
            i \in {j \in 1..Len(gen.vars) : gen.vars[j].name = vscp} }

\* The statements left are c: execution goes on, or the entry point has
\* returned to the main loop.
Continue(c) ==
    /\ cont' = c
    /\ pc' = IF c = <<>> THEN "idle" ELSE "exec"

Frame == <<netlist, logicClasses, firstClasses, opt, dpiExportTriggerp, schedVars>>

\* AstAssign
ExecAssign ==
    /\ pc = "exec" /\ cont # <<>> /\ Head(cont).op = "Assign"
    /\ LET stmt == Head(cont)
           val  == eval(stmt.rhsp, store)
           tag  == tagWhere(LAMBDA r : stmt.lhsp.var = triggeredOf(r))
       IN  /\ store' = IF stmt.lhsp.e = "At"
                       THEN [store EXCEPT ![stmt.lhsp.var] =
                                IF val # 0 THEN @ \cup {stmt.lhsp.index}
                                ELSE @ \ {stmt.lhsp.index}]
                       ELSE [store EXCEPT ![stmt.lhsp.var] = val]
           /\ hist' = [hist EXCEPT
                          !.written = IF stmt.lhsp.e = "At" /\ tag # ""
                                      THEN [@ EXCEPT ![tag] = @ \cup {stmt.lhsp.index}]
                                      ELSE @,
                          !.dpiOps = IF stmt.rhsp = VarRef(DpiExportTrigger)
                                        /\ stmt.lhsp.e = "At"
                                     THEN Append(@, "rd")
                                     ELSE IF stmt.lhsp = VarRef(DpiExportTrigger)
                                     THEN Append(@, "clr")
                                     ELSE @]
    /\ Continue(Tail(cont))
    /\ UNCHANGED Frame

\* AstIf
ExecIf ==
    /\ pc = "exec" /\ cont # <<>> /\ Head(cont).op = "If"
    /\ Continue((IF eval(Head(cont).condp, store) # 0
                 THEN Head(cont).ifsp ELSE Head(cont).elsesp) \o Tail(cont))
    /\ UNCHANGED <<Frame, store, hist>>

\* AstWhile: the test of the loop, before its first iteration ("While") or
\* after an iteration ("WhileAgain").
ExecWhile ==
    /\ pc = "exec" /\ cont # <<>> /\ Head(cont).op \in {"While", "WhileAgain"}
    /\ LET loopp == Head(cont)
           tag   == tagWhere(LAMBDA r : loopp.condp.var = continueOf(r))
       IN  IF eval(loopp.condp, store) # 0
           THEN /\ Continue(loopp.bodysp
                            \o << [op |-> "WhileAgain", condp |-> loopp.condp,
                                   bodysp |-> loopp.bodysp] >>
                            \o Tail(cont))
                /\ hist' = [hist EXCEPT
                               !.bodyRuns[tag] = IF loopp.op = "While" THEN 0 ELSE @,
                               !.written[tag] = {},
                               !.ran[tag] = FALSE,
                               !.latched = IF tag = "nba" THEN {} ELSE @,
                               !.actSeen = IF tag = "nba" THEN {} ELSE @,
                               !.preSeen = IF tag = "nba" THEN {} ELSE @,
                               !.actEntries = IF tag = "nba" THEN 0
                                              ELSE IF tag = "act" /\ loopp.op = "While"
                                                   THEN @ + 1 ELSE @,
                               !.dpiOps = IF tag \in {"ico", "act"} THEN <<>> ELSE @]
           ELSE /\ Continue(Tail(cont))
                /\ hist' = hist
    /\ UNCHANGED <<Frame, store>>

\* AstCCall
ExecCCall ==
    /\ pc = "exec" /\ cont # <<>> /\ Head(cont).op = "CCall"
    /\ LET funcp == Head(cont).funcp
           tag   == tagWhere(LAMBDA r : funcp = bodyOf(r))
       IN  /\ Continue(stmtsp(gen, funcp)
                       \o << [op |-> "Return", funcp |-> funcp] >> \o Tail(cont))
           /\ hist' = [hist EXCEPT
                          !.bodyRuns = IF tag # "" THEN [@ EXCEPT ![tag] = @ + 1] ELSE @,
                          !.ran = IF tag # "" THEN [@ EXCEPT ![tag] = TRUE] ELSE @,
                          !.actSeen = IF tag = "act"
                                      THEN @ \cup store["__VactTriggered"] ELSE @,
                          !.preSeen = IF tag = "act"
                                      THEN @ \cup store["__VpreTriggered"] ELSE @,
                          !.actFixed = IF tag \in {"act", "nba"} THEN FALSE ELSE @]
    /\ UNCHANGED <<Frame, store>>

\* The return of a function.
ExecReturn ==
    /\ pc = "exec" /\ cont # <<>> /\ Head(cont).op = "Return"
    /\ Continue(Tail(cont))
    /\ hist' = [hist EXCEPT
                   !.actFixed = IF Head(cont).funcp = loc.actTrig.m_funcp
                                THEN store[loc.actTrig.m_vscp] = {} ELSE @,
                   !.latched = IF Head(cont).funcp = loc.actTrig.m_funcp
                               THEN @ \cup store[loc.actTrig.m_vscp] ELSE @]
    /\ UNCHANGED <<Frame, store>>

\* AstCMethodHard as a statement: the methods of VlTriggerVec and VlEvent.
ExecCMethodHard ==
    /\ pc = "exec" /\ cont # <<>> /\ Head(cont).op = "CMethodHard"
    /\ LET stmt == Head(cont)
           tag  == tagWhere(LAMBDA r : stmt.var = triggeredOf(r))
       IN  /\ store' =
                CASE stmt.name = "clear" -> [store EXCEPT ![stmt.var] = {}]
                  [] stmt.name = "set" ->
                       [store EXCEPT ![stmt.var] = @ \cup store[stmt.pinsp[1]]]
                  [] stmt.name = "andNot" ->
                       [store EXCEPT ![stmt.var] = store[stmt.pinsp[1]] \ store[stmt.pinsp[2]]]
                  [] stmt.name = "clearFired" -> [store EXCEPT ![stmt.var] = 0]
           /\ hist' = [hist EXCEPT
                          !.written = IF stmt.name = "clear" /\ tag # ""
                                      THEN [@ EXCEPT ![tag] = bitsOf(stmt.var)]
                                      ELSE @,
                          !.actFixed = IF stmt.name = "clear" /\ tag = "nba"
                                       THEN FALSE ELSE @]
    /\ Continue(Tail(cont))
    /\ UNCHANGED Frame

\* AstTextBlock: VL_FATAL_MT ends the execution; the debug dump, the
\* enqueueing of an event for clearing and a debug message change nothing
\* of the state modelled.
ExecText ==
    /\ pc = "exec" /\ cont # <<>> /\ Head(cont).op = "Text"
    /\ IF Head(cont).kind = "fatal"
       THEN /\ pc' = "fatal"
            /\ cont' = <<>>
            /\ hist' = [hist EXCEPT !.fatal = Head(cont).arg]
       ELSE /\ Continue(Tail(cont))
            /\ hist' = hist
    /\ UNCHANGED <<Frame, store>>

\* What a write of the design's logic or of the environment does to the
\* variable v: a signal changes, an event fires, a DPI export sets the
\* DPI export trigger.
writeOf(st, v) ==
    [st EXCEPT ![v] = IF v \in {"ev", DpiExportTrigger} THEN 1 ELSE 1 - @]

\* The variables the design's logic and the environment may write.
Writable == (Signals \cup {DpiExportTrigger}) \cap DOMAIN store

\* A logic statement of the design: it writes nothing that is sensed, or
\* one of the variables that are.
ExecLogic ==
    /\ pc = "exec" /\ cont # <<>> /\ Head(cont).op = "Logic"
    /\ \/ store' = store
       \/ \E v \in Writable : store' = writeOf(store, v)
    /\ Continue(Tail(cont))
    /\ UNCHANGED <<Frame, hist>>

\* Between two calls of _eval the environment writes an input.
EnvChange ==
    /\ pc = "idle"
    /\ \E v \in Writable : store' = writeOf(store, v)
    /\ UNCHANGED <<Frame, pc, cont, hist>>

\* The main loop calls _eval.
EnvCall ==
    /\ pc = "idle" /\ hist.evals < MaxEvals
    /\ pc' = "exec"
    /\ cont' = << CCall("_eval") >>
    /\ hist' = [hist EXCEPT !.evals = @ + 1, !.actFixed = FALSE]
    /\ UNCHANGED <<Frame, store>>

NextEval ==
    \/ ExecAssign
    \/ ExecIf
    \/ ExecWhile
    \/ ExecCCall
    \/ ExecReturn
    \/ ExecCMethodHard
    \/ ExecText
    \/ ExecLogic
    \/ EnvChange
    \/ EnvCall

SpecEval == InitEval /\ [][NextEval]_vars

(***************************************************************************)
(* Properties of the generated code (SpecEval).                            *)
(***************************************************************************)
\* The statement executed next (a statement no rule executes when the
\* entry point has returned).
Current == IF cont = <<>> THEN [op |-> "None"] ELSE Head(cont)

\* The test "if (trigVscp.any())" makeEvalLoop puts after the trigger
\* computation of the loop of the region tag is executed next.
AtTriggerTest(tag) ==
    /\ Current.op = "If"
    /\ Current.condp = AnyOf(triggeredOf(tag))
    /\ Current.ifsp # <<>>

\* The test of the loop of the region tag after one of its iterations is
\* executed next.
AtIterationEnd(tag) ==
    /\ Current.op = "WhileAgain"
    /\ Current.condp = VarRef(continueOf(tag))

\* The divergence check of the loop of the region tag is executed next.
AtLimitTest(tag) ==
    /\ Current.op = "If"
    /\ Current.condp.e = "Gt"
    /\ Current.condp.lhsp = VarRef("__V" \o tag \o "IterCount")

\* C1: in every execution of _eval the NBA body function is called only
\* after an Active trigger computation of the same NBA iteration has left
\* no bit of the act trigger vector set with no Active body run since, and
\* _eval returns only after the Active loop has again run to such a fixed
\* point after the last NBA body.
C1_NbaAfterActiveFixedPoint ==
    /\ Current = CCall("_eval_nba") => hist.actFixed
    /\ Current = [op |-> "Return", funcp |-> "_eval"] => hist.actFixed

\* _eval returns after its NBA body has run.
C1_Witness ==
    /\ Current = [op |-> "Return", funcp |-> "_eval"]
    /\ hist.bodyRuns.nba >= 1
    /\ hist.actFixed

\* C2 as claimed: within one run of an eval loop the region body runs at
\* most convergeLimit times.
C2_AtMostConvergeLimit ==
    \A tag \in Regions : hist.bodyRuns[tag] <= opt.convergeLimit

\* C2 as amended: within one run of an eval loop the region body runs at
\* most convergeLimit + 1 times; the divergence check of the loop is true
\* exactly when the body has run convergeLimit + 1 times and the triggers
\* are set again, and then the FATAL "<name> region did not converge" is
\* reached instead of a further run of the body.
C2_AtMostConvergeLimitPlusOne ==
    /\ \A tag \in Regions : hist.bodyRuns[tag] <= opt.convergeLimit + 1
    /\ \A tag \in Regions :
          AtLimitTest(tag) =>
              /\ Current.condp.rhsp = Const(opt.convergeLimit)
              /\ Current.ifsp[Len(Current.ifsp)] = Text("fatal", humanName(tag))
              /\ eval(Current.condp, store) # 0
                    <=> hist.bodyRuns[tag] = opt.convergeLimit + 1
    /\ pc = "fatal" =>
          \E tag \in Regions : /\ hist.fatal = humanName(tag)
                                /\ hist.bodyRuns[tag] = opt.convergeLimit + 1

\* A loop has not converged under the largest limit.
C2_Witness ==
    /\ pc = "fatal"
    /\ opt.convergeLimit = MaxConvergeLimit
    /\ \E tag \in Regions : /\ hist.fatal = humanName(tag)
                            /\ hist.bodyRuns[tag] = opt.convergeLimit + 1

\* C3: when the netlist has a DPI export trigger variable, in every
\* iteration of the ICO loop and of the Active loop the variable is read
\* into a trigger bit and then set to false exactly once: that has happened
\* (and the variable is false) when the triggers are tested, it is still
\* all that has happened when the region body of the iteration is called,
\* and when the iteration ends.
C3_DpiReadThenClearedOncePerIteration ==
    DpiExportTrigger \in DOMAIN store =>
        \A tag \in {"ico", "act"} :
            /\ AtTriggerTest(tag) =>
                  hist.dpiOps = <<"rd", "clr">> /\ store[DpiExportTrigger] = 0
            /\ Current = CCall(bodyOf(tag)) => hist.dpiOps = <<"rd", "clr">>
            /\ AtIterationEnd(tag) => hist.dpiOps = <<"rd", "clr">>

\* The ICO body is called in an iteration whose trigger computation found
\* the DPI export trigger set.
C3_Witness ==
    /\ DpiExportTrigger \in DOMAIN store
    /\ Current = CCall(bodyOf("ico"))
    /\ 1 \in store[triggeredOf("ico")]
    /\ hist.dpiOps = <<"rd", "clr">>

\* C4: for every region R of stl, ico, act, nba, when the trigger
\* computation of an iteration of R's loop has been executed, every bit of
\* __V<R>Triggered has been assigned by it.
C4_EveryTriggerBitWritten ==
    \A tag \in Regions :
        AtTriggerTest(tag) => hist.written[tag] = bitsOf(triggeredOf(tag))

\* The trigger computation of a loop with an extra trigger and a SenTree
\* trigger has been executed.
C4_Witness ==
    \E tag \in {"stl", "ico"} :
        /\ AtTriggerTest(tag)
        /\ Cardinality(bitsOf(triggeredOf(tag))) >= 2
        /\ hist.written[tag] = bitsOf(triggeredOf(tag))

(***************************************************************************)
(* Properties of schedule (Spec).                                          *)
(***************************************************************************)
\* The number of elements of the sequence q equal to x.
count(q, x) == Cardinality({i \in 1..Len(q) : q[i] = x})

\* The trigger kits made so far, each with the arguments of the call of
\* createTriggers that made it.
TriggerKits ==
    { k \in { [name |-> "stl", trig |-> loc.stlTrig, senTreeps |-> loc.stlSenTreeps,
               extra |-> loc.stlExtra],
              [name |-> "ico", trig |-> loc.icoTrig, senTreeps |-> loc.icoSenTreeps,
               extra |-> loc.icoExtra],
              [name |-> "act", trig |-> loc.actTrig, senTreeps |-> loc.actSenTreeps,
               extra |-> loc.actExtra] } : k.trig.m_vscp # "" }

\* The statement that assigns an extra trigger: the first iteration test or
\* the read of the DPI export trigger.
isExtraAssign(stmt, name) ==
    \/ stmt.rhsp = Bin("Eq", VarRef("__V" \o name \o "IterCount"), Const(0))
    \/ stmt.rhsp = VarRef(DpiExportTrigger)

\* C5: for every call createTriggers(senTrees, name, extra) the trigger
\* vector has width |senTrees| + extra, bit extra+i is computed from the
\* i-th input AstSenTree and that tree is mapped to it, the map has exactly
\* |senTrees| entries, and the bits below extra are assigned only as extra
\* triggers.
C5_TriggerLayout ==
    \A k \in TriggerKits :
        LET vscp == k.trig.m_vscp
            body == stmtsp(gen, k.trig.m_funcp)
        IN  /\ count([i \in 1..Len(gen.vars) |-> gen.vars[i].name], vscp) = 1
            /\ \A i \in 1..Len(gen.vars) :
                  gen.vars[i].name = vscp
                      => gen.vars[i].width = Len(k.senTreeps) + k.extra
            /\ DOMAIN k.trig.m_map = Range(k.senTreeps)
            /\ Cardinality(DOMAIN k.trig.m_map) = Len(k.senTreeps)
            /\ \A i \in 1..Len(k.senTreeps) :
                  /\ gen.senTrees[k.trig.m_map[k.senTreeps[i]]]
                        = [vscp |-> vscp, index |-> k.extra + i - 1]
                  /\ count(body, Assign(At(vscp, k.extra + i - 1),
                                        build(gen, k.senTreeps[i]).resultp)) = 1
            /\ \A j \in 1..Len(body) :
                  (body[j].op = "Assign" /\ body[j].lhsp.e = "At")
                      => /\ body[j].lhsp.var = vscp
                         /\ body[j].lhsp.index \in 0..(Len(k.senTreeps) + k.extra - 1)
                         /\ body[j].lhsp.index < k.extra <=> isExtraAssign(body[j], k.name)

\* schedule has returned with an 'act' kit of one extra trigger and several
\* trees and an 'ico' kit of two extra triggers and a tree.
C5_Witness ==
    /\ pc = "done"
    /\ loc.actExtra = 1 /\ Len(loc.actSenTreeps) >= 2
    /\ loc.icoTrig.m_vscp # "" /\ loc.icoExtra = 2 /\ Len(loc.icoSenTreeps) >= 1

\* The AstSenItems of the trees given to the trigger kits.
SensedItems ==
    UNION { UNION { Range(sensesp(k.senTreeps[i])) : i \in 1..Len(k.senTreeps) }
            : k \in TriggerKits }

\* The edge types createTerm compares with a previous value.
PrevEdges == {"ET_CHANGED", "ET_HYBRID", "ET_BOTHEDGE", "ET_POSEDGE", "ET_NEGEDGE"}

\* The 'previous value' variables made for the expression currp.
shadowsOf(currp) ==
    {gen.m_prev[i].prevp : i \in {j \in 1..Len(gen.m_prev) : gen.m_prev[j].currp = currp}}

RECURSIVE withCalled(_)
\* The statements of a list with every call replaced by the statements of
\* the function called.
withCalled(stmts) ==
    IF stmts = <<>> THEN <<>>
    ELSE (IF Head(stmts).op = "CCall" THEN withCalled(stmtsp(gen, Head(stmts).funcp))
          ELSE << Head(stmts) >>)
         \o withCalled(Tail(stmts))

\* The assignments of the statement list q to the variable vscp.
assignsTo(q, vscp) ==
    {i \in 1..Len(q) : q[i].op = "Assign" /\ q[i].lhsp = VarRef(vscp)}

\* C6 as stated: after schedule every sensed expression of a trigger kit
\* has exactly one shadow variable and exactly one initializing assignment
\* to it among the statements of _eval_initial.
C6_OneShadowEach ==
    pc = "done" =>
        \A it \in SensedItems :
            /\ Cardinality(shadowsOf(it.sensp)) = 1
            /\ \A p \in shadowsOf(it.sensp) :
                  /\ count([i \in 1..Len(gen.vars) |-> gen.vars[i].name], p) = 1
                  /\ count(stmtsp(gen, "_eval_initial"),
                           Assign(VarRef(p), VarRef(it.sensp))) = 1

\* C6 amended: after schedule every expression sensed with an edge that is
\* compared with a previous value (changed, hybrid, both, pos, neg) has
\* exactly one shadow variable in the top scope, and exactly one
\* assignment to it, initializing it from the expression, is run by
\* _eval_initial (in it or in a function splitCheck split from it); an
\* expression sensed only as an event or with an illegal edge has none.
C6_OneShadowPerComparedExpression ==
    pc = "done" =>
        \A it \in SensedItems :
            IF \E o \in SensedItems : o.sensp = it.sensp /\ o.edgeType \in PrevEdges
            THEN /\ Cardinality(shadowsOf(it.sensp)) = 1
                 /\ \A p \in shadowsOf(it.sensp) :
                       LET init == withCalled(stmtsp(gen, "_eval_initial")) IN
                       /\ count([i \in 1..Len(gen.vars) |-> gen.vars[i].name], p) = 1
                       /\ count(init, Assign(VarRef(p), VarRef(it.sensp))) = 1
                       /\ Cardinality(assignsTo(init, p)) = 1
            ELSE shadowsOf(it.sensp) = {}

\* schedule has returned for a design in which one expression is sensed by
\* two trees and by the kits of two regions.
C6_Witness ==
    /\ pc = "done"
    /\ \E it \in SensedItems :
          /\ it.edgeType \in PrevEdges
          /\ Cardinality({k \in TriggerKits :
                            \E i \in 1..Len(k.senTreeps) :
                                \E o \in Range(sensesp(k.senTreeps[i])) :
                                    o.sensp = it.sensp}) >= 2
          /\ Cardinality({t \in UNION {Range(k.senTreeps) : k \in TriggerKits} :
                            \E o \in Range(sensesp(t)) : o.sensp = it.sensp}) >= 2
          /\ Cardinality(shadowsOf(it.sensp)) = 1

\* The logic statements the generated functions hold.
GeneratedLogic ==
    UNION { {q.id : q \in {r \in Range(gen.funcs[i].stmtsp) : r.op = "Logic"}}
            : i \in 1..Len(gen.funcs) }

InitClassify ==
    /\ pc = "classify"
    /\ \E n \in 0..MaxActives : \E f \in [1..n -> ActiveShapes] : netlist = netlistOf(f)
    /\ logicClasses = EmptyClasses
    /\ firstClasses = NoFirst
    /\ opt = NoOpt
    /\ dpiExportTriggerp = ""
    /\ logicRegions = NoRegions
    /\ logicReplicas = NoReplicas
    /\ gen = EmptyIR
    /\ loc = NoLoc
    /\ cont = <<>>
    /\ store = << >>
    /\ hist = NoHist

ClassifyFirst ==
    /\ pc = "classify"
    /\ LET g == gatherLogicClasses(netlist) IN
       /\ logicClasses' = g.result
       /\ netlist' = g.netlist
       /\ firstClasses' = [ran |-> TRUE, input |-> netlist, result |-> g.result,
                           netlist |-> g.netlist, failedAt |-> g.failedAt]
       /\ pc' = IF g.failed THEN "failed" ELSE "classified"
    /\ UNCHANGED <<opt, dpiExportTriggerp, schedVars, evalVars>>

ClassifyAgain ==
    /\ pc = "classified"
    /\ LET g == gatherLogicClasses(netlist) IN
       /\ logicClasses' = g.result
       /\ netlist' = g.netlist
       /\ pc' = IF g.failed THEN "failed" ELSE "reclassified"
    /\ UNCHANGED <<firstClasses, opt, dpiExportTriggerp, schedVars, evalVars>>

NextClassify == ClassifyFirst \/ ClassifyAgain

SpecClassify == InitClassify /\ [][NextClassify]_vars

(***************************************************************************)
(* Properties of the classifier (SpecClassify).                            *)
(***************************************************************************)
\* The number of bucket entries that hold the AstActive with the given id.
occurrences(lc, id) ==
    LET n(b) == Cardinality({i \in 1..Len(lc[b]) : lc[b][i].id = id}) IN
    n("m_static") + n("m_initial") + n("m_final") + n("m_comb") + n("m_clocked")
    + n("m_hybrid")

\* The UASSERT_OBJs of the classifier, stated on the input: a non-empty
\* block whose static/initial/final/combo tree has several items, or whose
\* tree is of no class at all.
malformed(activep) ==
    LET t == activep.sensesp IN
    /\ activep.stmtsp # <<>>
    /\ \/ (hasStatic(t) \/ hasInitial(t) \/ hasFinal(t) \/ hasCombo(t))
          /\ Len(sensesp(t)) > 1
       \/ ~(hasStatic(t) \/ hasInitial(t) \/ hasFinal(t) \/ hasCombo(t) \/ hasClocked(t))

\* C7: when the classifier returns, every non-empty AstActive of the input
\* netlist is in exactly one bucket entry (none twice, none omitted) and no
\* empty AstActive is in any bucket.
C7_ExactlyOneBucket ==
    pc = "classified" =>
        \A i \in 1..Len(firstClasses.input) :
            LET a == firstClasses.input[i] IN
            occurrences(logicClasses, a.id) = (IF a.stmtsp = <<>> THEN 0 ELSE 1)

\* A run that classified a non-empty block and skipped an empty one.
C7_Witness ==
    /\ pc = "classified"
    /\ \E i, j \in 1..Len(firstClasses.input) :
          /\ firstClasses.input[i].stmtsp = <<>>
          /\ firstClasses.input[j].stmtsp # <<>>
          /\ occurrences(logicClasses, firstClasses.input[j].id) = 1

C9_SecondRunEmpty ==
    pc = "reclassified" => \A b \in BucketNames : logicClasses[b] = <<>>

\* C9 amended: the second run yields the buckets of the first run and
\* leaves the netlist as the first run left it (the classifier unlinks only
\* empty blocks; what it classified stays linked).
C9_SecondRunSame ==
    pc = "reclassified" =>
        /\ logicClasses = firstClasses.result
        /\ netlist = firstClasses.netlist
        /\ \A i \in 1..Len(firstClasses.input) :
              firstClasses.input[i].stmtsp # <<>>
                  => occurrences(logicClasses, firstClasses.input[i].id) = 1

\* A second run over a netlist that holds classified blocks.
C9_Witness ==
    /\ pc = "reclassified"
    /\ \E b \in BucketNames : logicClasses[b] # <<>>
    /\ Len(firstClasses.input) > Len(netlist)

(***************************************************************************)
(* SpecOrder: orderSequentially on a LogicByScope, and the function it     *)
(* fills executed.                                                         *)
(***************************************************************************)
\* The largest LogicByScope given to orderSequentially.
MaxLbs == 3

\* An AstActive of the netlist that is in no LogicByScope.
OtherActive == Active(0, "top", "sPosClk", "stmt")

InitOrder ==
    /\ pc = "order"
    /\ \E n \in 0..MaxLbs : \E f \in [1..n -> Scopes \X {"sStatic"} \X {"stmt", "proc"}] :
          /\ logicClasses = [EmptyClasses EXCEPT !.m_static = netlistOf(f)]
          /\ netlist = << OtherActive >> \o netlistOf(f)
    /\ firstClasses = NoFirst
    /\ opt = NoOpt
    /\ dpiExportTriggerp = ""
    /\ logicRegions = NoRegions
    /\ logicReplicas = NoReplicas
    /\ gen = makeTopFunction(EmptyIR, "_eval_static", TRUE)
    /\ loc = NoLoc
    /\ cont = <<>>
    /\ store = << >>
    /\ hist = NoHist

\* orderSequentially(funcp, logicClasses.m_static)
OrderSequentially ==
    /\ pc = "order"
    /\ LET o == orderSequentially(gen, netlist, "_eval_static", logicClasses.m_static) IN
       /\ gen' = o.ir
       /\ netlist' = o.netlist
    /\ pc' = "ordered"
    /\ UNCHANGED <<logicClasses, firstClasses, opt, dpiExportTriggerp, logicRegions,
                   logicReplicas, loc, evalVars>>

\* The model calls the function orderSequentially has filled.
CallTop ==
    /\ pc = "ordered"
    /\ pc' = "exec"
    /\ cont' = << CCall("_eval_static") >>
    /\ UNCHANGED <<Frame, store, hist>>

NextOrder ==
    \/ OrderSequentially
    \/ CallTop
    \/ ExecCCall
    \/ ExecReturn
    \/ ExecLogic

SpecOrder == InitOrder /\ [][NextOrder]_vars

(***************************************************************************)
(* Properties of orderSequentially (SpecOrder).                            *)
(***************************************************************************)
RECURSIVE firstScopes(_, _)
\* The scopes of the entries of lbs, each once, in the order of their first
\* appearance.
firstScopes(lbs, seen) ==
    IF lbs = <<>> THEN <<>>
    ELSE IF Head(lbs).scopep \in seen THEN firstScopes(Tail(lbs), seen)
    ELSE << Head(lbs).scopep >> \o firstScopes(Tail(lbs), seen \cup {Head(lbs).scopep})

\* The logic statements of the AstActives of lbs, in the order of lbs.
logicOf(lbs) == [i \in 1..Len(lbs) |-> Logic(lbs[i].id)]

\* The logic statements of lbs scope by scope: the scopes in the order of
\* their first appearance, the entries of a scope in the order of lbs.
logicByScope(lbs) ==
    LET sc == firstScopes(lbs, {}) IN
    Flatten([k \in 1..Len(sc) |-> logicOf(SelectSeqBy(lbs, sc[k]))])

\* The logic statements still to be executed.
remainingLogic == SelectSeq(withCalled(cont), LAMBDA q : q.op = "Logic")

\* The sequence q is what is left of the sequence w after some of its
\* first elements.
IsSuffix(q, w) == Len(q) <= Len(w) /\ q = SubSeq(w, Len(w) - Len(q) + 1, Len(w))

\* C11: after orderSequentially(topFunc, lbs) topFunc holds exactly one
\* call per distinct scope of lbs, in the order of the scopes' first
\* appearance; the sub-function of a scope (one per scope, in that scope,
\* as slow as topFunc) holds the statements of the scope's AstActives in
\* the order of lbs, procedures replaced by their bodies; and every
\* AstActive of lbs is gone from the netlist.
C11_OneCallPerScope ==
    pc = "ordered" =>
        LET lbs == logicClasses.m_static
            sc  == firstScopes(lbs, {})
            sub(k) == "_eval_static__" \o sc[k]
        IN  /\ stmtsp(gen, "_eval_static") = [k \in 1..Len(sc) |-> CCall(sub(k))]
            /\ Len(gen.funcs) = 1 + Len(sc)
            /\ \A k \in 1..Len(sc) :
                  /\ gen.funcs[k + 1].name = sub(k)
                  /\ gen.funcs[k + 1].scopep = sc[k]
                  /\ gen.funcs[k + 1].slow = gen.funcs[1].slow
                  /\ gen.funcs[k + 1].stmtsp = logicOf(SelectSeqBy(lbs, sc[k]))
            /\ netlist = << OtherActive >>

\* orderSequentially has run on a LogicByScope of three entries in which
\* the scopes alternate and one entry is a procedure.
C11_Witness ==
    /\ pc = "ordered"
    /\ Len(logicClasses.m_static) = 3
    /\ logicClasses.m_static[1].scopep = logicClasses.m_static[3].scopep
    /\ logicClasses.m_static[1].scopep # logicClasses.m_static[2].scopep
    /\ \E i \in 1..3 : logicClasses.m_static[i].kind = "proc"
    /\ Len(stmtsp(gen, "_eval_static")) = 2

MaxStmts == 3

MaxSplit == 6

StmtKinds == {"text", "logic", "if"}

\* The statement of the given kind at position i of the function.
stmtOf(kind, i) ==
    CASE kind = "text"  -> Text("msg", i)
      [] kind = "logic" -> Logic(i)
      [] kind = "if"    -> If(VarRef("a"), << Logic(i) >>, <<>>)

\* The functions splitCheck is called with: _eval_static is slow, _eval_nba
\* is not.
SplitFuncs == { <<"_eval_static", TRUE>>, <<"_eval_nba", FALSE>> }

InitSplit ==
    /\ pc = "split"
    /\ netlist = <<>>
    /\ logicClasses = EmptyClasses
    /\ firstClasses = NoFirst
    /\ \E n \in 0..MaxSplit : opt = [NoOpt EXCEPT !.outputSplitCFuncs = n]
    /\ dpiExportTriggerp = ""
    /\ logicRegions = NoRegions
    /\ logicReplicas = NoReplicas
    /\ \E fn \in SplitFuncs : \E n \in 0..MaxStmts : \E k \in [1..n -> StmtKinds] :
          gen = addStmtsp(makeSubFunction(EmptyIR, fn[1], fn[2]), fn[1],
                          [i \in 1..n |-> stmtOf(k[i], i)])
    /\ loc = NoLoc
    /\ cont = <<>>
    /\ store = << >>
    /\ hist = NoHist

\* The function splitCheck is applied to.
SplitFunc == gen.funcs[1].name

\* splitCheck(funcp)
SplitCheck ==
    /\ pc = "split"
    /\ gen' = splitCheck(gen, SplitFunc)
    /\ pc' = "split1"
    /\ UNCHANGED <<netlist, logicClasses, firstClasses, opt, dpiExportTriggerp,
                   logicRegions, logicReplicas, loc, evalVars>>

\* splitCheck(funcp) on the function splitCheck has returned from.
SplitCheckAgain ==
    /\ pc = "split1"
    /\ gen' = splitCheck(gen, SplitFunc)
    /\ pc' = "split2"
    /\ UNCHANGED <<netlist, logicClasses, firstClasses, opt, dpiExportTriggerp,
                   logicRegions, logicReplicas, loc, evalVars>>

NextSplit ==
    \/ SplitCheck
    \/ SplitCheckAgain

SpecSplit == InitSplit /\ [][NextSplit]_vars

\* The sub-functions of an IR of this specification: all but the first.
subFuncs(ir) == SubSeq(ir.funcs, 2, Len(ir.funcs))

\* f.nodeCount(): the function and the nodes of its statements.
funcNodeCount(ir) == 1 + nodeCountAll(ir.funcs[1].stmtsp)

\* C13 as stated: splitCheck leaves f unchanged when outputSplitCFuncs = 0,
\* when f has no statements, or when f.nodeCount() < outputSplitCFuncs, and
\* it splits exactly when outputSplitCFuncs is non-zero and
\* f.nodeCount() >= outputSplitCFuncs.
C13_SplitsExactlyAtThreshold ==
    [][pc = "split" =>
        LET n == opt.outputSplitCFuncs IN
        /\ (n = 0 \/ gen.funcs[1].stmtsp = <<>> \/ funcNodeCount(gen) < n) => gen' = gen
        /\ (gen' # gen) <=> (n # 0 /\ funcNodeCount(gen) >= n)]_vars

\* C13 amended: splitCheck leaves f unchanged when outputSplitCFuncs = 0,
\* when f has no statements, or when f.nodeCount() < outputSplitCFuncs, and
\* it splits exactly when outputSplitCFuncs is non-zero, f has statements
\* and f.nodeCount() >= outputSplitCFuncs.
C13_SplitsExactlyAtThresholdWithStatements ==
    [][pc = "split" =>
        LET n == opt.outputSplitCFuncs IN
        /\ (n = 0 \/ gen.funcs[1].stmtsp = <<>> \/ funcNodeCount(gen) < n) => gen' = gen
        /\ (gen' # gen) <=> (n # 0 /\ gen.funcs[1].stmtsp # <<>> /\ funcNodeCount(gen) >= n)
        /\ (gen' # gen) => Len(gen'.funcs) > 1]_vars

\* A function whose node count was exactly outputSplitCFuncs has been split.
C13_Witness ==
    /\ pc = "split1"
    /\ Len(gen.funcs) > 1
    /\ 1 + nodeCountAll(Flatten([i \in 1..Len(subFuncs(gen)) |-> subFuncs(gen)[i].stmtsp]))
         = opt.outputSplitCFuncs

\* C14 as stated: applying splitCheck to f twice produces the same
\* functions (same names, same statement lists, same calls) as applying it
\* once.
C14_SplitCheckIdempotent ==
    [][pc = "split1" => gen' = gen]_vars

\* Two functions of the IR have the same name.
sameNameTwice(ir) ==
    \E i, j \in 1..Len(ir.funcs) : i < j /\ ir.funcs[i].name = ir.funcs[j].name

\* C14 amended: applying splitCheck to f twice produces the same functions
\* as applying it once exactly when the first application did not split f
\* or left f with a node count (one plus the number of its calls) below
\* outputSplitCFuncs; otherwise the second application splits the calls of
\* f again, into new functions that take the names of the first ones.
C14_SplitCheckIdempotentBelowThreshold ==
    [][pc = "split1" =>
        /\ (gen' = gen) <=> (Len(gen.funcs) = 1 \/ Len(gen.funcs) < opt.outputSplitCFuncs)
        /\ (gen' # gen) => sameNameTwice(gen')]_vars

\* A function has been split and the second splitCheck has left it alone.
C14_Witness ==
    /\ pc = "split2"
    /\ Len(gen.funcs) > 1
    /\ Len(gen.funcs) = 1 + Len(gen.funcs[1].stmtsp)
    /\ ~sameNameTwice(gen)

\* C15: when splitCheck splits f, f afterwards holds only calls of the
\* sub-functions f__0, f__1, ... in increasing order, every sub-function
\* has the slow flag of f, and the statement lists of the sub-functions,
\* concatenated in call order, are the original statement list of f.
C15_SplitKeepsStatements ==
    [][(pc = "split" /\ gen' # gen) =>
        LET f    == gen.funcs[1]
            k    == Len(gen'.funcs) - 1
            name(i) == f.name \o "__" \o ToString(i - 1)
        IN  /\ k >= 1
            /\ gen'.funcs[1].name = f.name
            /\ gen'.funcs[1].stmtsp = [i \in 1..k |-> CCall(name(i))]
            /\ \A i \in 1..k :
                  /\ gen'.funcs[1 + i].name = name(i)
                  /\ gen'.funcs[1 + i].slow = f.slow
            /\ Flatten([i \in 1..k |-> gen'.funcs[1 + i].stmtsp]) = f.stmtsp]_vars

\* A slow function has been split into at least two sub-functions, one of
\* them with more than one statement.
C15_Witness ==
    /\ pc = "split1"
    /\ Len(gen.funcs) >= 3
    /\ gen.funcs[1].slow
    /\ \E i \in 2..Len(gen.funcs) : Len(gen.funcs[i].stmtsp) >= 2

\* C16 as stated: whenever splitCheck splits a function, every generated
\* sub-function holds statements whose node counts sum to at most
\* outputSplitCFuncs.
C16_SubFunctionsWithinLimit ==
    [][(pc = "split" /\ gen' # gen) =>
        \A i \in 2..Len(gen'.funcs) :
            nodeCountAll(gen'.funcs[i].stmtsp) <= opt.outputSplitCFuncs]_vars

\* C16 amended: whenever splitCheck splits a function, every generated
\* sub-function holds statements whose node counts sum to at most
\* outputSplitCFuncs, or holds one single statement (of more nodes than
\* outputSplitCFuncs).
C16_SubFunctionsWithinLimitOrSingle ==
    [][(pc = "split" /\ gen' # gen) =>
        \A i \in 2..Len(gen'.funcs) :
            \/ nodeCountAll(gen'.funcs[i].stmtsp) <= opt.outputSplitCFuncs
            \/ Len(gen'.funcs[i].stmtsp) = 1]_vars

\* A split has filled one sub-function with several statements up to the
\* limit and has opened another one.
C16_Witness ==
    /\ pc = "split1"
    /\ Len(gen.funcs) >= 3
    /\ \E i \in 2..Len(gen.funcs) :
          /\ Len(gen.funcs[i].stmtsp) >= 2
          /\ nodeCountAll(gen.funcs[i].stmtsp) = opt.outputSplitCFuncs

(***************************************************************************)
(* Properties of schedule on particular designs (Spec).                    *)
(***************************************************************************)
\* The design whose only logic is one combinational AstActive of the top
\* scope (y = a & b).
OnlyComb == firstClasses.input = netlistOf(<< <<"top", "sCombo", "stmt">> >>)

\* The widths of the variables of the given name.
widthsOf(name) == {gen.vars[i].width : i \in {j \in 1..Len(gen.vars) : gen.vars[j].name = name}}

\* The function holds a loop.
hasLoop(funcp) == \E i \in 1..Len(stmtsp(gen, funcp)) : stmtsp(gen, funcp)[i].op = "While"

\* C17 as stated: for the design whose only logic is one combinational
\* block computing y = a & b, _eval_settle holds a loop with an stl trigger
\* vector of width 3, and a and b have shadow variables initialized in
\* _eval_initial.
C17_SettleWidthThree ==
    (pc = "done" /\ OnlyComb) =>
        /\ hasLoop("_eval_settle")
        /\ widthsOf(loc.stlTrig.m_vscp) = {3}
        /\ \A v \in {"a", "b"} :
              /\ shadowsOf(v) # {}
              /\ \A q \in shadowsOf(v) :
                    count(withCalled(stmtsp(gen, "_eval_initial")),
                          Assign(VarRef(q), VarRef(v))) = 1

\* C17 amended: for the design whose only logic is one combinational
\* block computing y = a & b, _eval_settle holds a loop with an stl trigger
\* vector of width 1 (the first-iteration bit only), no shadow variable is
\* made and _eval_initial initializes none.
C17_SettleWidthOne ==
    (pc = "done" /\ OnlyComb) =>
        /\ hasLoop("_eval_settle")
        /\ loc.stlTrig.m_vscp = "__VstlTriggered"
        /\ widthsOf(loc.stlTrig.m_vscp) = {1}
        /\ loc.stlSenTreeps = <<>>
        /\ gen.m_prev = <<>>
        /\ \A i \in 1..Len(gen.vars) : gen.vars[i].kind # "prev"
        /\ withCalled(stmtsp(gen, "_eval_initial")) = <<>>

\* schedule has returned for the design of one combinational block, and
\* _eval_settle calls the loop over the logic of the block.
C17_Witness ==
    /\ pc = "done"
    /\ OnlyComb
    /\ hasLoop("_eval_settle")
    /\ Logic(1) \in Range(withCalled(stmtsp(gen, "_eval_stl")))

\* The names of the functions marked as entry points, in order.
entryPoints ==
    LET fs == SelectSeq(gen.funcs, LAMBDA f : f.entryPoint) IN
    [i \in 1..Len(fs) |-> fs[i].name]

\* C18: after schedule has returned the top scope holds exactly the entry
\* point functions _eval_static, _eval_initial, _eval_settle, _eval_final
\* and _eval, each once, and the NBA function the netlist remembers is the
\* function ordered for the nba region.
C18_EntryPoints ==
    pc = "done" =>
        /\ Range(entryPoints)
             = {"_eval_static", "_eval_initial", "_eval_settle", "_eval_final", "_eval"}
        /\ Len(entryPoints) = 5
        /\ \A i \in 1..Len(gen.funcs) :
              gen.funcs[i].entryPoint => gen.funcs[i].scopep = "top"
        /\ loc.evalNbap = loc.nbaFuncp
        /\ loc.evalNbap = "_eval_nba"
        /\ count([i \in 1..Len(gen.funcs) |-> gen.funcs[i].name], loc.evalNbap) = 1
        /\ ~gen.funcs[funcIndex(gen, loc.evalNbap)].entryPoint

\* schedule has returned for a design with logic in the nba region and a
\* function that splitCheck has split.
C18_Witness ==
    /\ pc = "done"
    /\ stmtsp(gen, "_eval_nba") # <<>>
    /\ \E i \in 1..Len(gen.funcs) : gen.funcs[i].name = "_eval_nba__0"

\* The design with one empty top scope.
EmptyDesign == firstClasses.input = <<>>

\* The variables that are trigger vectors.
triggerVecs == {gen.vars[i].name : i \in {j \in 1..Len(gen.vars) : gen.vars[j].kind = "TRIGGERVEC"}}

\* The function exists and has no statements.
emptyFunc(name) == funcIndex(gen, name) # 0 /\ stmtsp(gen, name) = <<>>

\* C19 as stated: for a netlist with one empty top scope schedule makes
\* _eval_static, _eval_initial, _eval_final and _eval with empty bodies,
\* no _eval_settle and no trigger vector variable.
C19_EmptyDesignNothing ==
    (pc = "done" /\ EmptyDesign) =>
        /\ \A f \in {"_eval_static", "_eval_initial", "_eval_final", "_eval"} : emptyFunc(f)
        /\ funcIndex(gen, "_eval_settle") = 0
        /\ triggerVecs = {}

\* C19 amended: for a netlist with one empty top scope schedule makes
\* _eval_static, _eval_initial, _eval_final and also _eval_settle with
\* empty bodies; _eval is not empty: it holds the NBA loop, whose trigger
\* computation holds the Active loop; the act, pre and nba trigger vectors
\* are made, with no bit but the one of the DPI export trigger when there
\* is one, and no stl or ico trigger vector is made.
C19_EmptyDesignLoopsOnly ==
    (pc = "done" /\ EmptyDesign) =>
        /\ \A f \in {"_eval_static", "_eval_initial", "_eval_final", "_eval_settle"} :
              emptyFunc(f)
        /\ funcIndex(gen, "_eval") # 0
        /\ \E i \in 1..Len(stmtsp(gen, "_eval")) :
              LET w == stmtsp(gen, "_eval")[i] IN
              /\ w.op = "While"
              /\ \E j \in 1..Len(w.bodysp) : w.bodysp[j].op = "While"
        /\ triggerVecs = {"__VactTriggered", "__VpreTriggered", "__VnbaTriggered"}
        /\ loc.actSenTreeps = <<>>
        /\ loc.actExtra \in {0, 1}
        /\ \A v \in triggerVecs : widthsOf(v) = {loc.actExtra}

\* schedule has returned for the empty design, once with and once without
\* a DPI export trigger; here without.
C19_Witness ==
    /\ pc = "done"
    /\ EmptyDesign
    /\ loc.actExtra = 0
    /\ funcIndex(gen, "_eval") # 0

(***************************************************************************)
(* The body of the Active loop (SpecEval).                                 *)
(***************************************************************************)
\* The statements of the body of the Active loop.
PreAndNot == Method("andNot", "__VpreTriggered", << triggeredOf("act"), "__VnbaTriggered" >>)

NbaSet == Method("set", "__VnbaTriggered", << triggeredOf("act") >>)

ActCall == CCall(bodyOf("act"))

\* C20: the Active body function is called only right after the two
\* assignments, made in this order with the act vector A just computed and
\* the nba vector N of before: the pre vector becomes A and-not N, then the
\* nba vector becomes N or A, and neither step changes anything else of
\* the three vectors.
C20_PreThenNbaBeforeActBody ==
    [][LET A == store[triggeredOf("act")]
           N == store["__VnbaTriggered"]
       IN  /\ Current = PreAndNot =>
                 /\ store'["__VpreTriggered"] = A \ N
                 /\ store'["__VnbaTriggered"] = N
                 /\ store'[triggeredOf("act")] = A
                 /\ Current' = NbaSet
           /\ Current = NbaSet =>
                 /\ store["__VpreTriggered"] = A \ N
                 /\ store'["__VpreTriggered"] = A \ N
                 /\ store'["__VnbaTriggered"] = N \cup A
                 /\ store'[triggeredOf("act")] = A
                 /\ Current' = ActCall
           /\ (Current' = ActCall /\ Current # ActCall) => Current = NbaSet]_vars

\* The Active body is called in an iteration in which a trigger has fired
\* that was latched for the NBA region before, so that the pre vector
\* differs from the act vector.
C20_Witness ==
    /\ Current = ActCall
    /\ store[triggeredOf("act")] # {}
    /\ store["__VpreTriggered"] # store[triggeredOf("act")]

\* C21: whenever the NBA body function is called, the nba trigger vector
\* is the union of the act trigger vectors computed by the Active loop
\* since the current iteration of the NBA loop began (hist.latched), so
\* nothing latched in an earlier NBA iteration is carried over.
C21_NbaIsOrOfActSinceClear ==
    Current = CCall(bodyOf("nba")) => store["__VnbaTriggered"] = hist.latched

\* The NBA body is called for the second time in one call of _eval, after
\* an Active loop of more than one trigger computation.
C21_Witness ==
    /\ Current = CCall(bodyOf("nba"))
    /\ hist.bodyRuns["nba"] >= 1
    /\ store["__VnbaTriggered"] # {}
    /\ store[triggeredOf("act")] = {}

(***************************************************************************)
(* The loops of makeEvalLoop (SpecEval).                                   *)
(***************************************************************************)
\* The loop of the region tag is entered: its first test is executed next.
AtLoopEntry(tag) ==
    /\ Current.op = "While"
    /\ Current.condp = VarRef(continueOf(tag))

\* The parts of C22 the two statements share: a loop is entered with its
\* condition set; at the test of the triggers the computation of the
\* iteration has assigned every bit and the body has not run; the body is
\* called only with a bit set; at the end of an iteration the loop goes on
\* exactly when a bit is set.
loopShape(tag) ==
    /\ AtLoopEntry(tag) => store[continueOf(tag)] = 1
    /\ AtTriggerTest(tag) =>
          ~hist.ran[tag] /\ hist.written[tag] = bitsOf(triggeredOf(tag))
    /\ Current = CCall(bodyOf(tag)) =>
          store[triggeredOf(tag)] # {} /\ ~hist.ran[tag]
    /\ AtIterationEnd(tag) =>
          (store[continueOf(tag)] = 1 <=> store[triggeredOf(tag)] # {})

\* The iteration of the loop of the region tag has come to its end, or the
\* execution has been aborted in it.
iterationOver(tag) ==
    \/ AtIterationEnd(tag)
    \/ pc = "fatal" /\ hist.fatal = humanName(tag)

\* C22 as stated: in each iteration the trigger computation runs first,
\* the body runs in the iteration if and only if a bit of the trigger
\* vector is set after the computation, the loop runs at least one
\* iteration per entry and exits at the end of the first iteration in
\* which no bit is set.
C22_BodyIffTriggered ==
    \A tag \in Regions :
        /\ loopShape(tag)
        /\ iterationOver(tag) => (hist.ran[tag] <=> store[triggeredOf(tag)] # {})

\* C22 amended: as stated, but the body runs in the iteration if and only
\* if a bit is set after the computation and the iteration is not the one
\* in which the counter exceeds convergeLimit: in that one the execution
\* is aborted with the bits set and the body not run.
C22_BodyIffTriggeredAndNotAborted ==
    \A tag \in Regions :
        /\ loopShape(tag)
        /\ AtIterationEnd(tag) => (hist.ran[tag] <=> store[triggeredOf(tag)] # {})
        /\ (pc = "fatal" /\ hist.fatal = humanName(tag)) =>
              /\ ~hist.ran[tag]
              /\ store[triggeredOf(tag)] # {}
              /\ store["__V" \o tag \o "IterCount"] > opt.convergeLimit

\* An iteration of the Active loop without a trigger ends, after an
\* iteration in which the body has run.
C22_Witness ==
    /\ AtIterationEnd("act")
    /\ ~hist.ran["act"]
    /\ hist.bodyRuns["act"] >= 1
    /\ store[triggeredOf("act")] = {}

\* C23: in every run of the Settle loop and of the ICO loop, bit 0 of the
\* trigger vector is set by the first trigger computation of the run (the
\* one before any call of the body) and by no later one, so that no run
\* ends, normally or aborted, before the body has run once.
C23_FirstIterationOnlyOnce ==
    \A tag \in {"stl", "ico"} :
        /\ AtTriggerTest(tag) =>
              (0 \in store[triggeredOf(tag)] <=> hist.bodyRuns[tag] = 0)
        /\ iterationOver(tag) => hist.bodyRuns[tag] >= 1

\* A later trigger computation of a run of the Settle or of the ICO loop
\* has found a trigger set, and not bit 0.
C23_Witness ==
    \E tag \in {"stl", "ico"} :
        /\ AtTriggerTest(tag)
        /\ hist.bodyRuns[tag] >= 1
        /\ store[triggeredOf(tag)] # {}
        /\ 0 \notin store[triggeredOf(tag)]

(***************************************************************************)
(* SpecKit: one trigger kit made by createTriggers from any list of        *)
(* clocked or hybrid AstSenTrees, the first iteration assignment added to  *)
(* it at any index of its extra triggers, and its trigger function called  *)
(* MaxKitCalls times with any values of the sensed signals (the first time *)
(* also with any values of the 'previous value' variables).                *)
(***************************************************************************)
MaxKitTrees == 2

MaxExtra == 2

MaxKitCalls == 2

\* The AstSenTrees a kit is made from.
KitSenTrees == {"sPosClk", "sChgNeg", "sEvent", "sEvOrPos", "sIllBoth", "sHybA", "sHybAB"}

\* The lists of up to MaxKitTrees different trees (getSenTreesUsedBy gives
\* every tree once).
KitSenTreeLists ==
    UNION { {q \in [1..n -> KitSenTrees] : \A j, k \in 1..n : j # k => q[j] # q[k]}
            : n \in 0..MaxKitTrees }

\* The counter of the loop the kit is made for.
KitCounter == "__VicoIterCount"

\* The call of addFirstIterationTriggerAssignment that is still to be made.
FirstIterationCall(index) ==
    [op |-> "addFirstIterationTriggerAssignment", counterp |-> KitCounter, index |-> index]

InitKit ==
    /\ pc = "kit"
    /\ netlist = <<>>
    /\ logicClasses = EmptyClasses
    /\ firstClasses = NoFirst
    /\ \E x \in BOOLEAN : opt = [NoOpt EXCEPT !.xInitialEdge = x]
    /\ dpiExportTriggerp = ""
    /\ logicRegions = NoRegions
    /\ logicReplicas = NoReplicas
    /\ \E senTreeps \in KitSenTreeLists, extra \in 1..MaxExtra :
          LET t == createTriggers(makeTopFunction(EmptyIR, "_eval_initial", TRUE),
                                  senTreeps, "ico", extra, FALSE)
          IN  /\ gen = t.ir
              /\ loc = [NoLoc EXCEPT !.initp = "_eval_initial",
                                     !.icoTrig = t.trig,
                                     !.icoSenTreeps = senTreeps,
                                     !.icoExtra = extra]
              /\ \E index \in 0..(extra - 1) : cont = << FirstIterationCall(index) >>
    /\ store = << >>
    /\ hist = NoHist

\* trig.addFirstIterationTriggerAssignment(counterp, index)
AddFirstIterationTriggerAssignment ==
    /\ pc = "kit"
    /\ gen' = addFirstIterationTriggerAssignment(gen, loc.icoTrig, Head(cont).counterp,
                                                 Head(cont).index)
    /\ pc' = "kit1"
    /\ cont' = <<>>
    /\ UNCHANGED <<netlist, logicClasses, firstClasses, opt, dpiExportTriggerp,
                   logicRegions, logicReplicas, loc, store, hist>>

\* The signals the trees of the kit sense.
KitSignals ==
    UNION { {it.sensp : it \in Range(sensesp(loc.icoSenTreeps[i]))}
            : i \in 1..Len(loc.icoSenTreeps) }

\* The events among them.
KitEvents ==
    UNION { {it.sensp : it \in {x \in Range(sensesp(loc.icoSenTreeps[i])) :
                                    x.edgeType = "ET_EVENT"}}
            : i \in 1..Len(loc.icoSenTreeps) }

\* The 'previous value' variables of the kit.
KitPrevs == {gen.vars[i].name : i \in {j \in 1..Len(gen.vars) : gen.vars[j].kind = "prev"}}

\* The first call of the trigger function: the trigger vector is empty,
\* the DidInit flag is clear, the signals, the 'previous value' variables
\* and the counter have any value.
KitFirstCall ==
    /\ pc = "kit1"
    /\ \E f \in [KitSignals \cup KitPrevs \cup {KitCounter} -> {0, 1}] :
          /\ store' = [v \in DOMAIN f \cup {gen.vars[i].name : i \in 1..Len(gen.vars)} |->
                          IF v \in DOMAIN f THEN f[v]
                          ELSE IF v = loc.icoTrig.m_vscp THEN {} ELSE 0]
          /\ hist' = [hist EXCEPT !.evals = 1,
                                  !.firedAtCall = {v \in KitEvents : f[v] = 1}]
    /\ pc' = "exec"
    /\ cont' = << CCall(loc.icoTrig.m_funcp) >>
    /\ UNCHANGED Frame

\* A later call of the trigger function, after any change of the signals.
KitCallAgain ==
    /\ pc = "idle" /\ hist.evals < MaxKitCalls
    /\ \E f \in [KitSignals -> {0, 1}] :
          /\ store' = [v \in DOMAIN store |-> IF v \in DOMAIN f THEN f[v] ELSE store[v]]
          /\ hist' = [hist EXCEPT !.evals = @ + 1,
                                  !.firedAtCall = {v \in KitEvents : f[v] = 1}]
    /\ pc' = "exec"
    /\ cont' = << CCall(loc.icoTrig.m_funcp) >>
    /\ UNCHANGED Frame

NextKit ==
    \/ AddFirstIterationTriggerAssignment
    \/ KitFirstCall
    \/ KitCallAgain
    \/ ExecCCall
    \/ ExecReturn
    \/ ExecAssign
    \/ ExecIf
    \/ ExecCMethodHard
    \/ ExecText

SpecKit == InitKit /\ [][NextKit]_vars

\* C24: for every index within the extra bits of the vector,
\* addFirstIterationTriggerAssignment(counter, index) puts the assignment
\* of (counter == 0) to the bit of that index at the head of the trigger
\* function, leaves the rest of the function as it was, and assigns that
\* value to no other bit.
C24_FirstIterationBitAtIndex ==
    [][pc = "kit" =>
        LET index == Head(cont).index
            vscp  == loc.icoTrig.m_vscp
            val   == Bin("Eq", VarRef(Head(cont).counterp), Const(0))
            body  == stmtsp(gen', loc.icoTrig.m_funcp)
        IN  /\ Head(body) = Assign(At(vscp, index), val)
            /\ Tail(body) = stmtsp(gen, loc.icoTrig.m_funcp)
            /\ \A k \in 1..Len(body) :
                  (body[k].op = "Assign" /\ body[k].rhsp = val)
                      => body[k].lhsp = At(vscp, index)]_vars

\* The tree asks for its trigger to fire at the first evaluation: it has
\* an item sensed as changed or hybrid.
firesAtInitialization(senTreep) == hasEdge(senTreep, {"ET_CHANGED", "ET_HYBRID"})

\* The bit of the i-th tree of the kit.
kitBit(i) == loc.icoExtra + i - 1

\* The test of the DidInit flag in the trigger function is executed next.
AtDidInitTest ==
    /\ Current.op = "If"
    /\ Current.condp = Not(VarRef("__VicoDidInit"))

\* C25: after the first call of the trigger function of a kit every bit
\* of a tree that asked to fire at the first evaluation (of every tree
\* when xInitialEdge is on) is set, whatever the values of the signals and
\* of the 'previous value' variables; in every later call the test of the
\* DidInit flag fails, so that the block changes no bit; and the block
\* assigns no extra bit: bit 0 is what the first iteration assignment gave
\* it and the other extra bits stay clear.
C25_InitialTriggersOnce ==
    /\ (pc = "idle" /\ hist.evals = 1) =>
          \A i \in 1..Len(loc.icoSenTreeps) :
              (firesAtInitialization(loc.icoSenTreeps[i]) \/ opt.xInitialEdge)
                  => kitBit(i) \in store[loc.icoTrig.m_vscp]
    /\ (AtDidInitTest /\ hist.evals >= 2) => store["__VicoDidInit"] = 1
    /\ AtDidInitTest =>
          \A k \in 1..Len(Current.ifsp) :
              Current.ifsp[k].lhsp.e = "At" => Current.ifsp[k].lhsp.index >= loc.icoExtra
    /\ pc = "idle" =>
          /\ 0 \in store[loc.icoTrig.m_vscp] <=> store[KitCounter] = 0
          /\ \A k \in 1..(loc.icoExtra - 1) : k \notin store[loc.icoTrig.m_vscp]

\* The second call of the trigger function has returned with the bit of a
\* tree clear that the first call had forced.
C25_Witness ==
    /\ pc = "idle" /\ hist.evals = 2
    /\ loc.icoExtra = 2
    /\ \E i \in 1..Len(loc.icoSenTreeps) :
          /\ firesAtInitialization(loc.icoSenTreeps[i]) \/ opt.xInitialEdge
          /\ kitBit(i) \notin store[loc.icoTrig.m_vscp]

\* The trigger of the AstSenItem as the claim states it, for the values
\* the store st gives the sensed signal and its 'previous value' variable
\* (an event is triggered when it is fired).
termHolds(it, st) ==
    LET c == st[it.sensp]
        p == st[CHOOSE q \in shadowsOf(it.sensp) : TRUE]
    IN  CASE it.edgeType \in {"ET_CHANGED", "ET_HYBRID", "ET_BOTHEDGE"} -> c # p
          [] it.edgeType = "ET_POSEDGE" -> c = 1 /\ p = 0
          [] it.edgeType = "ET_NEGEDGE" -> c = 0 /\ p = 1
          [] it.edgeType = "ET_EVENT"   -> c = 1
          [] it.edgeType = "ET_ILLEGAL" -> FALSE

\* The assignment of the trigger expression of the i-th tree of the kit to
\* its bit is executed next.
AtTriggerAssign(i) ==
    /\ Current.op = "Assign"
    /\ Current.lhsp = At(loc.icoTrig.m_vscp, kitBit(i))
    /\ Current.rhsp # Const(1)

\* C26: the assignment of the trigger expression of a tree sets the bit of
\* the tree exactly when one of its items holds for the current and the
\* previous value of its signal: changed, hybrid and both edges when they
\* differ, a positive edge when the current value is 1 and the previous 0,
\* a negative edge when the current value is 0 and the previous 1, an
\* illegal item never.
C26_TriggerExpressions ==
    [][\A i \in 1..Len(loc.icoSenTreeps) :
          AtTriggerAssign(i) =>
              (kitBit(i) \in store'[loc.icoTrig.m_vscp]
                  <=> \E it \in Range(sensesp(loc.icoSenTreeps[i])) : termHolds(it, store))]_vars

\* The trigger expression of the tree @(a or negedge clk) is assigned when
\* a has not changed and clk has fallen.
C26_Witness ==
    \E i \in 1..Len(loc.icoSenTreeps) :
        /\ AtTriggerAssign(i)
        /\ loc.icoSenTreeps[i] = "sChgNeg"
        /\ store["a"] = store["__Vtrigrprev__top__a"]
        /\ store["clk"] = 0 /\ store["__Vtrigrprev__top__clk"] = 1

(***************************************************************************)
(* The pre/act/nba trigger vectors and their AstSenTree maps.              *)
(***************************************************************************)
\* The 'act' kit and the two cloned maps exist.
ActTriggersBuilt == pc \in {"act", "nba", "eval", "done"}

\* The position of the AstSenTree k in the list the 'act' kit was built from.
actPosition(k) == CHOOSE i \in 1..Len(loc.actSenTreeps) : loc.actSenTreeps[i] = k

\* C27: the act, pre and nba trigger vectors have the same width; the pre
\* and nba maps have the keys of the act map and map each key to an
\* AstSenTree that reads, in the pre (resp. nba) vector, the bit the act
\* tree of that key reads; the act map still maps every AstSenTree of the
\* kit to the tree createTriggers made for it, reading its own bit of the
\* act vector.
C27_PreNbaMapsMirrorAct ==
    ActTriggersBuilt =>
        LET actMap == loc.actTrig.m_map IN
        /\ loc.actTrig.m_vscp = "__VactTriggered"
        /\ Cardinality(widthsOf("__VactTriggered")) = 1
        /\ widthsOf(loc.preTrigVscp) = widthsOf("__VactTriggered")
        /\ widthsOf(loc.nbaTrigVscp) = widthsOf("__VactTriggered")
        /\ DOMAIN actMap = Range(loc.actSenTreeps)
        /\ DOMAIN loc.preTrigMap = DOMAIN actMap
        /\ DOMAIN loc.nbaTrigMap = DOMAIN actMap
        /\ \A k \in DOMAIN actMap :
              /\ gen.senTrees[actMap[k]] =
                     [vscp |-> "__VactTriggered",
                      index |-> loc.actExtra + actPosition(k) - 1]
              /\ gen.senTrees[loc.preTrigMap[k]] =
                     [vscp |-> loc.preTrigVscp, index |-> gen.senTrees[actMap[k]].index]
              /\ gen.senTrees[loc.nbaTrigMap[k]] =
                     [vscp |-> loc.nbaTrigVscp, index |-> gen.senTrees[actMap[k]].index]
              /\ loc.preTrigMap[k] # actMap[k]
              /\ loc.nbaTrigMap[k] # actMap[k]
              /\ loc.preTrigMap[k] # loc.nbaTrigMap[k]
        /\ {loc.preTrigVscp, loc.nbaTrigVscp, "__VactTriggered"} \subseteq triggerVecs
        /\ Cardinality({loc.preTrigVscp, loc.nbaTrigVscp, "__VactTriggered"}) = 3

\* The pass has finished for a design with two AstSenTrees in the 'act'
\* kit and a DPI export trigger in front of them.
C27_Witness ==
    /\ pc = "done"
    /\ Cardinality(DOMAIN loc.actTrig.m_map) >= 2
    /\ loc.actExtra = 1
    /\ C27_PreNbaMapsMirrorAct

(***************************************************************************)
(* The initializers of the shadow variables in _eval_initial (Spec).       *)
(***************************************************************************)
\* The statements _eval_initial runs, in the order it runs them.
initialStmts == withCalled(stmtsp(gen, "_eval_initial"))

\* The statement is the initializer 'shadow := expr' of a shadow variable.
isShadowInit(nodep) ==
    \E i \in 1..Len(gen.m_prev) :
        nodep = Assign(VarRef(gen.m_prev[i].prevp), VarRef(gen.m_prev[i].currp))

\* _eval_initial exists.
InitialMade == pc \notin {"gather", "static", "initial", "failed"}

\* splitCheck has moved the statements of _eval_initial to sub-functions.
InitialSplit ==
    \E i \in 1..Len(gen.funcs) : gen.funcs[i].name = "_eval_initial__0"

\* C28: among the statements _eval_initial runs, no statement moved from an
\* initial block comes after a shadow initializer, every shadow variable
\* has its initializer there and no initializer writes a sensed
\* expression, so that at the end of _eval_initial every shadow holds the
\* current value of its expression; this is so whether or not
\* _eval_initial was split, and no initializer is appended once it was
\* split, which only the last step of schedule does.
C28_ShadowInitsLast ==
    /\ [](InitialMade =>
            /\ \A i, j \in 1..Len(initialStmts) :
                  (i < j /\ isShadowInit(initialStmts[i])) => isShadowInit(initialStmts[j])
            /\ \A k \in 1..Len(gen.m_prev) :
                  /\ \E i \in 1..Len(initialStmts) :
                        initialStmts[i] = Assign(VarRef(gen.m_prev[k].prevp),
                                                 VarRef(gen.m_prev[k].currp))
                  /\ \A m \in 1..Len(gen.m_prev) :
                        gen.m_prev[k].prevp # gen.m_prev[m].currp
            /\ (InitialSplit => pc = "done"))
    /\ [][(gen'.m_prev # gen.m_prev) => ~InitialSplit /\ ~InitialSplit']_vars

\* schedule has finished with _eval_initial split: a statement of an
\* initial block runs first, the initializers of two shadows after it.
C28_Witness ==
    /\ pc = "done"
    /\ InitialSplit
    /\ Len(gen.m_prev) >= 1
    /\ initialStmts # <<>>
    /\ ~isShadowInit(initialStmts[1])
    /\ isShadowInit(initialStmts[Len(initialStmts)])
(***************************************************************************)
(* Events in a trigger kit (SpecKit).                                      *)
(***************************************************************************)
\* The trees of the kit that sense the event ev.
treesOfEvent(ev) ==
    {i \in 1..Len(loc.icoSenTreeps) :
        \E it \in Range(sensesp(loc.icoSenTreeps[i])) :
            it.edgeType = "ET_EVENT" /\ it.sensp = ev}

\* The fired state of the event ev is cleared next.
AtClearFired(ev) == Current = Method("clearFired", ev, <<>>)

\* C29: in a trigger computation the fired state of an event is cleared
\* only when it was read as fired, after the trigger expressions of all
\* trees were assigned, the bit of every tree sensing the event being set
\* then; when the computation has returned the event is not fired, and the
\* bit of the tree @(ev) is set exactly when the event was fired between
\* the previous computation and this one (the first computation with
\* xInitialEdge sets it in any case): one firing sets the bit in one
\* computation only.
C29_EventLatchedOnce ==
    /\ [](\A ev \in KitEvents :
            /\ (pc = "exec" /\ AtClearFired(ev)) =>
                  /\ store[ev] = 1 /\ ev \in hist.firedAtCall
                  /\ \A i \in treesOfEvent(ev) : kitBit(i) \in store[loc.icoTrig.m_vscp]
                  /\ \A k \in 1..Len(cont) :
                        cont[k].op = "Assign" => cont[k].lhsp.e # "At"
            /\ (pc = "idle" /\ hist.evals >= 1) =>
                  /\ store[ev] = 0
                  /\ \A i \in treesOfEvent(ev) :
                        loc.icoSenTreeps[i] = "sEvent" =>
                            (kitBit(i) \in store[loc.icoTrig.m_vscp]
                                <=> \/ ev \in hist.firedAtCall
                                    \/ hist.evals = 1 /\ opt.xInitialEdge))
    /\ [][\A ev \in KitEvents :
             (pc = "exec" /\ AtClearFired(ev)) => store'[ev] = 0]_vars

\* The second computation of a kit made from @(ev) and @(ev or posedge clk)
\* is about to clear the event, fired again after the first computation:
\* the bits of both trees are set.
C29_Witness ==
    /\ pc = "exec" /\ hist.evals = 2
    /\ AtClearFired("ev")
    /\ loc.icoSenTreeps = << "sEvent", "sEvOrPos" >>
    /\ ~opt.xInitialEdge
    /\ {kitBit(1), kitBit(2)} \subseteq store[loc.icoTrig.m_vscp]
    /\ store["clk"] = 0
(***************************************************************************)
(* SpecShared: designs whose combinational logic at the top is on a cycle, *)
(* so that the 'ico' kit and the 'act' kit sense the same signal through   *)
(* the one shadow variable SenExprBuilder keeps for it; _eval is called    *)
(* MaxSharedEvals times, and what the environment changed between two      *)
(* calls is recorded.                                                      *)
(***************************************************************************)
MaxSharedEvals == 2

\* The designs that are executed.
SharedDesigns ==
    { << <<"top", "sCombo", "cyc">> >>,
      << <<"top", "sCombo", "cyc">>, <<"top", "sChgNeg", "stmt">> >> }

InitShared ==
    /\ pc = "exec"
    /\ opt = [convergeLimit |-> MaxConvergeLimit, xInitialEdge |-> FALSE,
              outputSplitCFuncs |-> 0]
    /\ firstClasses = NoFirst
    /\ hist = NoHist
    /\ \E d \in SharedDesigns :
          LET S == schedule([netlist |-> netlistOf(d), logicClasses |-> EmptyClasses,
                             logicRegions |-> NoRegions, logicReplicas |-> NoReplicas,
                             ir |-> EmptyIR, loc |-> NoLoc, dpiExportTriggerp |-> ""])
          IN  /\ netlist = S.netlist
              /\ logicClasses = S.logicClasses
              /\ logicRegions = S.logicRegions
              /\ logicReplicas = S.logicReplicas
              /\ gen = S.ir
              /\ loc = S.loc
              /\ dpiExportTriggerp = S.dpiExportTriggerp
              /\ store = initialStore(S.ir.vars, sensedBy(netlistOf(d)), "")
    /\ cont = << CCall("_eval_static"), CCall("_eval_initial"), CCall("_eval_settle") >>

\* Between two calls of _eval the environment writes an input; the inputs
\* that differ from what they were when the last call returned are
\* recorded.
EnvChangeShared ==
    /\ pc = "idle"
    /\ \E v \in Writable :
          /\ store' = writeOf(store, v)
          /\ hist' = [hist EXCEPT !.changed =
                         IF store'[v] = store[v] THEN @
                         ELSE IF v \in @ THEN @ \ {v} ELSE @ \cup {v}]
    /\ UNCHANGED <<Frame, pc, cont>>

\* The main loop calls _eval; the values of the signals at the call are
\* recorded.
EnvCallShared ==
    /\ pc = "idle" /\ hist.evals < MaxSharedEvals
    /\ pc' = "exec"
    /\ cont' = << CCall("_eval") >>
    /\ hist' = [hist EXCEPT !.evals = @ + 1, !.actFixed = FALSE,
                            !.changedAtCall = hist.changed,
                            !.changed = {},
                            !.entry = [v \in Writable |-> store[v]]]
    /\ UNCHANGED <<Frame, store>>

NextShared ==
    \/ ExecAssign
    \/ ExecIf
    \/ ExecWhile
    \/ ExecCCall
    \/ ExecReturn
    \/ ExecCMethodHard
    \/ ExecText
    \/ ExecLogic
    \/ EnvChangeShared
    \/ EnvCallShared

SpecShared == InitShared /\ [][NextShared]_vars

\* The trees of a kit that are triggered by any change of the signal s.
treesOfChange(senTreeps, s) ==
    {i \in 1..Len(senTreeps) :
        \E it \in Range(sensesp(senTreeps[i])) :
            it.sensp = s /\ it.edgeType \in {"ET_CHANGED", "ET_HYBRID"}}

\* The signals that a tree of the 'ico' kit and a tree of the 'act' kit
\* sense.
sharedSensed ==
    {s \in Signals : /\ treesOfChange(loc.icoSenTreeps, s) # {}
                     /\ treesOfChange(loc.actSenTreeps, s) # {}}

\* The first trigger computation of the loop 'tag' in this call of _eval
\* is returning.
FirstComputationDone(tag) ==
    /\ pc = "exec" /\ Current.op = "Return"
    /\ tag = "ico" => store["__VicoIterCount"] = 0
    /\ tag = "ico" => Current.funcp = loc.icoTrig.m_funcp
    /\ tag = "act" => /\ Current.funcp = loc.actTrig.m_funcp
                      /\ store["__VactIterCount"] = 0
                      /\ store["__VnbaIterCount"] = 0

\* C30: in a call of _eval after the first, a signal sensed by both the
\* 'ico' and the 'act' kit that the environment changed since the previous
\* call returned, and that holds the value it had at the call, has the
\* bits of its trees set in the first trigger computation of the ICO loop
\* and in the first trigger computation of the Active loop.
C30_SharedChangeSetsBothKits ==
    \A s \in sharedSensed :
        (hist.evals >= 2 /\ s \in hist.changedAtCall /\ store[s] = hist.entry[s]) =>
            /\ FirstComputationDone("ico") =>
                  \A i \in treesOfChange(loc.icoSenTreeps, s) :
                      (loc.icoExtra + i - 1) \in store[loc.icoTrig.m_vscp]
            /\ FirstComputationDone("act") =>
                  \A i \in treesOfChange(loc.actSenTreeps, s) :
                      (loc.actExtra + i - 1) \in store[loc.actTrig.m_vscp]
(***************************************************************************)
(* SpecDpi: designs with a DPI export trigger variable, with and without   *)
(* an ICO loop in front of the Active loop; the environment and the logic  *)
(* of the design may set the variable (a DPI export was called).           *)
(***************************************************************************)
\* The designs that are executed: the first has logic in the 'ico' region,
\* the second has none.
DpiDesigns ==
    { << <<"top", "sCombo", "cyc">> >>,
      << <<"top", "sPosClk", "stmt">> >> }

InitDpi ==
    /\ pc = "exec"
    /\ opt = [convergeLimit |-> MaxConvergeLimit, xInitialEdge |-> FALSE,
              outputSplitCFuncs |-> 0]
    /\ firstClasses = NoFirst
    /\ hist = NoHist
    /\ \E d \in DpiDesigns :
          LET S == schedule([netlist |-> netlistOf(d), logicClasses |-> EmptyClasses,
                             logicRegions |-> NoRegions, logicReplicas |-> NoReplicas,
                             ir |-> EmptyIR, loc |-> NoLoc,
                             dpiExportTriggerp |-> DpiExportTrigger])
          IN  /\ netlist = S.netlist
              /\ logicClasses = S.logicClasses
              /\ logicRegions = S.logicRegions
              /\ logicReplicas = S.logicReplicas
              /\ gen = S.ir
              /\ loc = S.loc
              /\ dpiExportTriggerp = S.dpiExportTriggerp
              /\ store = initialStore(S.ir.vars, sensedBy(netlistOf(d)), DpiExportTrigger)
    /\ cont = << CCall("_eval_static"), CCall("_eval_initial"), CCall("_eval_settle") >>

SpecDpi == InitDpi /\ [][NextShared]_vars

\* _eval has an ICO loop in front of the Active loop.
HasIcoLoop == loc.icoLoopp # <<>>

\* The DPI export trigger variable was true when this call of _eval was
\* entered, and the first trigger computation of the Active loop is
\* returning.
DpiSetAtEntryAndActComputed ==
    /\ hist.evals >= 1
    /\ DpiExportTrigger \in DOMAIN hist.entry
    /\ hist.entry[DpiExportTrigger] = 1
    /\ FirstComputationDone("act")

\* C31: when the DPI export trigger variable is true at the entry of
\* _eval, the DPI bit of the act trigger vector (bit 0) is set by the first
\* trigger computation of the Active loop of that call, with or without an
\* ICO loop in front of it.
C31_DpiBitInFirstActComputation ==
    DpiSetAtEntryAndActComputed => 0 \in store[loc.actTrig.m_vscp]
(***************************************************************************)
(* The bit indices of the synthetic trigger AstSenTrees (Spec).            *)
(***************************************************************************)
\* a < b for 32-bit unsigned numbers kept as 32-bit patterns (UINT_MAX is
\* the pattern of all ones).
unsignedLess(a, b) ==
    IF a < 0 THEN b < 0 /\ a < b ELSE b < 0 \/ a < b

\* The AstSenTrees of the top scope that read a bit outside their trigger
\* vector.
outOfRangeSenTrees ==
    {i \in 1..Len(gen.senTrees) :
        \E w \in widthsOf(gen.senTrees[i].vscp) :
            ~unsignedLess(gen.senTrees[i].index, w)}

\* C32: when schedule has finished, every trigger AstSenTree it added to
\* the top scope reads a bit index smaller than the width of its trigger
\* vector, with and without a DPI export trigger variable.
C32_TriggerSenTreesInRange ==
    pc = "done" =>
        /\ \A i \in 1..Len(gen.senTrees) : widthsOf(gen.senTrees[i].vscp) # {}
        /\ outOfRangeSenTrees = {}
(***************************************************************************)
(* The pre triggers within one iteration of the NBA loop (SpecEval).       *)
(***************************************************************************)
\* C33: at every call of the Active body the pre vector is within the act
\* vector and the act vector within the nba vector, and the pre vector
\* holds exactly the bits of the act vector that were in the act vector at
\* no earlier call of the Active body in this iteration of the NBA loop
\* (hist.actSeen): a bit is in the pre vector only in the first Active
\* iteration in which it is in the act vector, hence in at most one
\* (hist.preSeen are the bits the pre vector held at an earlier call).
C33_PreOnlyAtFirstActivation ==
    Current = ActCall =>
        /\ store["__VpreTriggered"] \subseteq store[triggeredOf("act")]
        /\ store[triggeredOf("act")] \subseteq store["__VnbaTriggered"]
        /\ store["__VpreTriggered"] = store[triggeredOf("act")] \ hist.actSeen
        /\ store["__VpreTriggered"] \cap hist.preSeen = {}

\* The Active body is called a second time in one iteration of the NBA
\* loop with a bit in the act vector that was there at the first call: the
\* bit is not in the pre vector again.
C33_Witness ==
    /\ Current = ActCall
    /\ \E b \in store[triggeredOf("act")] :
          /\ b \in hist.actSeen /\ b \in hist.preSeen
          /\ b \notin store["__VpreTriggered"]
(***************************************************************************)
(* The iteration counters of the loops (SpecEval).                         *)
(***************************************************************************)
counterOf(tag) == "__V" \o tag \o "IterCount"

\* The regions whose loop the generated code has.
LoopsMade == {tag \in Regions : counterOf(tag) \in DOMAIN store}

\* The statement that increments the counter of the loop.
Increment(tag) ==
    Assign(VarRef(counterOf(tag)), Bin("Add", VarRef(counterOf(tag)), Const(1)))

\* The first statement of what makeBody gives the loop.
firstOfBody(tag) == IF tag = "act" THEN PreAndNot ELSE CCall(bodyOf(tag))

\* C34: the counter of a loop changes only in two statements: the
\* assignment of 0 right in front of the loop, and the increment, which is
\* executed only with a trigger set and the counter not above
\* convergeLimit (the divergence check has passed), and is followed at
\* once by the body, not yet run in the iteration.  Every loop is entered
\* with its counter 0, and at the test of the triggers the counter is the
\* number of times the body has run since the loop was entered, so that no
\* counter is reset inside a run of its loop; the Active loop is entered
\* exactly once in every iteration of the NBA loop.
C34_CounterResetAndIncrement ==
    /\ [](\A tag \in LoopsMade :
            /\ AtLoopEntry(tag) => store[counterOf(tag)] = 0
            /\ AtTriggerTest(tag) => store[counterOf(tag)] = hist.bodyRuns[tag]
            /\ AtTriggerTest("nba") => hist.actEntries = 1
            /\ Current = Increment(tag) =>
                  /\ store[triggeredOf(tag)] # {}
                  /\ store[counterOf(tag)] <= opt.convergeLimit
                  /\ ~hist.ran[tag]
                  /\ store[continueOf(tag)] = 1)
    /\ [][\A tag \in LoopsMade :
             /\ store'[counterOf(tag)] # store[counterOf(tag)] =>
                   \/ /\ Current = setVar(counterOf(tag), 0)
                      /\ store'[counterOf(tag)] = 0
                      /\ Current' = setVar(continueOf(tag), 1)
                   \/ /\ Current = Increment(tag)
                      /\ store'[counterOf(tag)] = store[counterOf(tag)] + 1
             /\ Current = Increment(tag) => Current' = firstOfBody(tag)
             /\ (Current.op = "If" /\ Current.condp.e = "Gt"
                    /\ Current.condp.lhsp = VarRef(counterOf(tag)) /\ pc' # "fatal")
                   => Tail(cont)[1] = Increment(tag)]_vars

\* The Active loop is entered for the second time in one call of _eval,
\* in the second iteration of the NBA loop, with its counter back at 0
\* after it had counted an iteration, while the NBA counter stays at 1.
C34_Witness ==
    /\ AtLoopEntry("act")
    /\ store[counterOf("act")] = 0
    /\ store[counterOf("nba")] = 1
    /\ hist.bodyRuns["nba"] = 1
(***************************************************************************)
(* SpecQuiet: the generated code executed with region bodies that write    *)
(* no signal, fire no event and do not set the DPI export trigger; only    *)
(* the environment changes the inputs, between the calls.                  *)
(***************************************************************************)
\* A logic statement of a region body that changes nothing that is sensed.
ExecLogicQuiet ==
    /\ pc = "exec" /\ cont # <<>> /\ Head(cont).op = "Logic"
    /\ Continue(Tail(cont))
    /\ UNCHANGED <<Frame, store, hist>>

NextQuiet ==
    \/ ExecAssign
    \/ ExecIf
    \/ ExecWhile
    \/ ExecCCall
    \/ ExecReturn
    \/ ExecCMethodHard
    \/ ExecText
    \/ ExecLogicQuiet
    \/ EnvChange
    \/ EnvCall

\* A step of the generated code.
QuietStep ==
    \/ ExecAssign
    \/ ExecIf
    \/ ExecWhile
    \/ ExecCCall
    \/ ExecReturn
    \/ ExecCMethodHard
    \/ ExecText
    \/ ExecLogicQuiet

SpecQuiet == InitEval /\ [][NextQuiet]_vars

\* The generated code, once called, keeps running.
SpecQuietFair == SpecQuiet /\ WF_vars(QuietStep)

\* C35: with bodies that change nothing, for convergeLimit 0 and above, no
\* loop of _eval_settle or of _eval is aborted; once the body of a loop
\* has run in a run of the loop, the next trigger computation sets no bit,
\* every shadow variable holding the current value of its signal after
\* the trigger computation of a kit; and every call returns.
C35_QuietRunsConverge ==
    /\ [](/\ pc # "fatal"
          /\ \A tag \in LoopsMade :
                (AtTriggerTest(tag) /\ hist.bodyRuns[tag] >= 1)
                    => store[triggeredOf(tag)] = {}
          /\ \A k \in TriggerKits :
                (pc = "exec" /\ Current = [op |-> "Return", funcp |-> k.trig.m_funcp]) =>
                    \A i \in 1..Len(gen.m_prev) :
                        gen.m_prev[i].currp \in
                            UNION { {it.sensp : it \in Range(sensesp(k.senTreeps[j]))}
                                    : j \in 1..Len(k.senTreeps) }
                        => store[gen.m_prev[i].prevp] = store[gen.m_prev[i].currp])
    /\ (pc = "exec") ~> (pc = "idle")

\* _eval has run the NBA body with convergeLimit 0 and is at the end of
\* the iteration of the NBA loop that found no trigger.
C35_Witness ==
    /\ opt.convergeLimit = 0
    /\ hist.evals = 1
    /\ AtIterationEnd("nba")
    /\ hist.bodyRuns["nba"] = 1
    /\ store[counterOf("nba")] = 1
    /\ ~hist.ran["nba"]

====
